---- MODULE Spec2Model ----
(***************************************************************************)
(* A model of the urlresolver pipeline: the canonicalizer, the resolver    *)
(* with its single-flight gate, redirect recorder and tweet short-circuit, *)
(* and the caching resolver that wraps it.                                 *)
(*                                                                         *)
(* URLs are records of tokens (scheme, host, port, path segments, query    *)
(* parameters, fragment).  The string a Go variable holds is the record    *)
(* it prints: url.Parse and URL.String are the two directions of that      *)
(* reading, while Canonicalize, matchTweetURL and the other conversions    *)
(* are computed as the code computes them.                                 *)
(***************************************************************************)
EXTENDS Naturals, Sequences, FiniteSets

\* ------------------------------------------------------------- bounds

\* Number of Resolve calls made through the cached resolver.
NCalls == 3

\* Number of those calls whose input is any of Inputs (Spec); under
\* SpecRepeat all NCalls calls resolve one and the same input.
NAny == 2

\* Last tick of the clock against which cache entries expire.
MaxClock == 2

\* Number of calls whose context is cancelled or expires.
MaxCancels == 1

\* The buffers a pool can hold at once.
NBuffers == 2

\* ------------------------------------------------------ program constants

\* urlresolver.go: the hop cap of redirectRecorder.checkRedirect.
maxRedirects == 5

\* cacheTTL (120 hours), in clock ticks of 120 hours.
cacheTTL == 1

\* defaultTimeout, in seconds.
defaultTimeout == 5

\* ------------------------------------------------------------- URLs

MkURL(s, h, p, path, q) ==
    [scheme |-> s, host |-> h, port |-> p, path |-> path, query |-> q, frag |-> ""]

\* The empty string, read as a URL.
EmptyURL == MkURL("", "", "", <<>>, <<>>)

\* strings.ToLower on the tokens of the model.
ToLower(s) ==
    CASE s = "McCutchen"   -> "mccutchen"
      [] s = "Twitter.COM" -> "twitter.com"
      [] s = "Example.COM" -> "example.com"
      [] s = "Foo"         -> "foo"
      [] s = "HTTP"        -> "http"
      [] s = "HTTPS"       -> "https"
      [] s = "UTM_Source"  -> "utm_source"
      [] OTHER             -> s

\* The registered domain a (lower-case) host token belongs to: the text a
\* pattern of the form (^|\.)domain$ looks at.
domainOf(h) ==
    CASE h = "www.youtube.com"    -> "youtube.com"
      [] h = "mobile.twitter.com" -> "twitter.com"
      [] h = "www.buzzfeed.com"   -> "buzzfeed.com"
      [] h = "www.instagram.com"  -> "instagram.com"
      [] h = "www.forbes.com"     -> "forbes.com"
      [] OTHER                    -> h

\* A case-insensitive pattern (?i)(^|\.)(d1|d2|...)$ matched against text
\* that is a host token followed by an optional ":port".
domainMatch(host, port, domains) ==
    /\ port = ""
    /\ domainOf(ToLower(host)) \in domains

\* canonicalizer.go: excludeParamPattern, on the parameter tokens of the model.
excludeParamPattern(param) ==
    ToLower(param) \in
        { "utm_source", "utm_campaign", "utm_medium", "gclid", "icid", "fbclid",
          "_hsenc", "_hsmi", "mkt_tok", "mc_cid", "sr_share", "vero_id",
          "nr_email_referer", "ncid", "ref", "_r", "currentpage", "fsrc",
          "mid", "mbid", "mobile_touch", "ocid", "rss", "s_src", "s_subsrc",
          "smid", "wpsrc" }

\* canonicalizer.go: domainParamAllowlist.
allowlistDomains == {"youtube.com", "twitter.com"}

allowlistPattern(domain, param) ==
    IF domainOf(ToLower(domain)) = "youtube.com"
    THEN param \in {"v", "p", "t", "list"}
    ELSE param = "q"

\* canonicalizer.go: stripParamDomainPattern.
stripParamDomains ==
    { "bbc.co.uk", "buzzfeed.com", "deadspin.com", "economist.com",
      "grantland.com", "huffingtonpost.com", "instagram.com", "newyorker.com",
      "nymag.com", "nytimes.com", "slate.com", "techcrunch.com",
      "theguardian.com", "theonion.com", "twitter.com", "vanityfair.com",
      "vulture.com", "washingtonpost.com", "wsj.com" }

\* canonicalizer.go: lowercaseDomainPattern.
lowercaseDomains == {"instagram.com", "twitter.com"}

\* cmd/urlresolver/main.go: the shouldExcludeParam of the older
\* canonicalizer, which asks the strip-all list before the allow-list.
shouldExcludeParamStripFirst(domain, param) ==
    IF excludeParamPattern(param) THEN TRUE
    ELSE IF domainMatch(domain, "", stripParamDomains) THEN TRUE
    ELSE IF domainMatch(domain, "", allowlistDomains)
         THEN ~allowlistPattern(domain, param)
         ELSE FALSE

\* canonicalizer.go: shouldExcludeParam(domain, param); domain is
\* u.Hostname(), the host without its port.
shouldExcludeParam(domain, param) ==
    IF excludeParamPattern(param) THEN TRUE
    ELSE IF domainMatch(domain, "", allowlistDomains)
         THEN ~allowlistPattern(domain, param)
         ELSE domainMatch(domain, "", stripParamDomains)

\* canonicalizer.go: filterParams, the parameters that survive, in the
\* order of the query.
filterParams(u) ==
    SelectSeq(u.query, LAMBDA kv : ~shouldExcludeParam(u.host, kv[1]))

\* Byte order of the parameter-name tokens of the model (sort.Strings in
\* url.Values.Encode): upper case, then "_", then lower case.
keyOrder ==
    << "AAA", "UTM_Source", "_r", "a", "b", "foo", "list", "mmm", "p", "q",
       "ref", "t", "utm_campaign", "utm_source", "v", "zzz" >>

keyRank(k) ==
    IF \E i \in 1..Len(keyOrder) : keyOrder[i] = k
    THEN CHOOSE i \in 1..Len(keyOrder) : keyOrder[i] = k
    ELSE Len(keyOrder) + 1

\* An insertion that puts a parameter behind those of the same key.
RECURSIVE insertParamAfter(_, _)
insertParamAfter(kv, s) ==
    IF s = <<>> THEN <<kv>>
    ELSE IF keyRank(kv[1]) < keyRank(Head(s)[1])
         THEN <<kv>> \o s
         ELSE <<Head(s)>> \o insertParamAfter(kv, Tail(s))

RECURSIVE insertParam(_, _)
insertParam(kv, s) ==
    IF s = <<>> THEN <<kv>>
    ELSE IF keyRank(kv[1]) <= keyRank(Head(s)[1])
         THEN <<kv>> \o s
         ELSE <<Head(s)>> \o insertParam(kv, Tail(s))

\* url.Values.Encode: keys sorted, the values of one key in their order.
RECURSIVE Encode(_)
Encode(q) ==
    IF q = <<>> THEN <<>> ELSE insertParam(Head(q), Encode(Tail(q)))

\* canonicalizer.go: clean.
clean(u) ==
    [u EXCEPT !.query = Encode(filterParams(u)), !.frag = ""]

\* purell.NormalizeURL under NormalizationFlags, on the tokens of the model:
\* lower-case scheme and host, default port removed.
NormalizeURL(u) ==
    LET s == ToLower(u.scheme)
    IN  [u EXCEPT !.scheme = s,
                  !.host = ToLower(u.host),
                  !.port = IF (s = "http" /\ u.port = "80") \/ (s = "https" /\ u.port = "443")
                           THEN "" ELSE u.port]

\* canonicalizer.go: normalize.  The lower-case pattern is matched against
\* u.Host, which carries the port.
normalize(u) ==
    NormalizeURL(
        IF domainMatch(u.host, u.port, lowercaseDomains)
        THEN [u EXCEPT !.path = [i \in 1..Len(u.path) |-> ToLower(u.path[i])]]
        ELSE u)

\* canonicalizer.go: Canonicalize.
Canonicalize(u) == normalize(clean(u))

\* ------------------------------------------------------------- tweets

\* Tokens that are runs of digits.
digitSegments == {"1234"}

\* tweetRegex, alternative [^/]+/status/\d+ (case-insensitive).
matchesUserStatus(u) ==
    /\ Len(u.path) >= 3
    /\ u.path[1] # ""
    /\ ToLower(u.path[2]) = "status"
    /\ u.path[3] \in digitSegments

\* tweetRegex, alternative i/web/status/\d+ (case-insensitive).
matchesWebStatus(u) ==
    /\ Len(u.path) >= 4
    /\ ToLower(u.path[1]) = "i"
    /\ ToLower(u.path[2]) = "web"
    /\ ToLower(u.path[3]) = "status"
    /\ u.path[4] \in digitSegments

\* tweetRegex: ^https://(mobile\.)?twitter\.com/ and one of the alternatives.
tweetRegex(u) ==
    /\ ToLower(u.scheme) = "https"
    /\ ToLower(u.host) \in {"twitter.com", "mobile.twitter.com"}
    /\ u.port = ""
    /\ (matchesUserStatus(u) \/ matchesWebStatus(u))

\* matchTweetURL: the matched prefix, with /i/web/ rewritten to
\* /__urlresolver__/ (strings.Contains and ReplaceAll are case-sensitive).
matchTweetURL(u) ==
    IF ~tweetRegex(u) THEN [ok |-> FALSE, url |-> EmptyURL]
    ELSE IF matchesUserStatus(u)
         THEN [ok |-> TRUE,
               url |-> MkURL(u.scheme, u.host, "", SubSeq(u.path, 1, 3), <<>>)]
         ELSE [ok |-> TRUE,
               url |-> MkURL(u.scheme, u.host, "",
                             IF u.path[1] = "i" /\ u.path[2] = "web"
                             THEN <<"__urlresolver__", u.path[3], u.path[4]>>
                             ELSE SubSeq(u.path, 1, 4),
                             <<>>)]

\* extractTweetText on the html tokens of the model.
extractTweetText(html) ==
    CASE html = "<p>tweet text</p>" -> "tweet text"
      [] OTHER                      -> ""

\* What the oEmbed endpoint can answer to a fetch of tweetURL: a failure of
\* the transport, the client timeout, a status other than 200, a body that
\* is no JSON, or JSON with the fields url and html (either may be empty).
\* Twitter reports the tweet under the author's screen name as registered.
oembedResponses(tweetURL) ==
    LET reported == [tweetURL EXCEPT !.path = <<"McCutchen", "status", tweetURL.path[3]>>]
    IN  { [kind |-> "neterr",  url |-> EmptyURL, html |-> ""],
          [kind |-> "timeout", url |-> EmptyURL, html |-> ""],
          [kind |-> "status",  url |-> EmptyURL, html |-> ""],
          [kind |-> "badjson", url |-> EmptyURL, html |-> ""],
          [kind |-> "json",    url |-> reported, html |-> "<p>tweet text</p>"],
          [kind |-> "json",    url |-> EmptyURL, html |-> "<p>tweet text</p>"],
          [kind |-> "json",    url |-> reported, html |-> ""] }

NoTweet == [url |-> EmptyURL, text |-> ""]

\* A Fetch that takes whatever JSON the endpoint answers.
FetchUnchecked(ctxState, resp) ==
    IF ctxState # "alive" \/ resp.kind # "json"
    THEN [tweet |-> NoTweet, err |-> "TransportError"]
    ELSE [tweet |-> [url |-> resp.url, text |-> extractTweetText(resp.html)],
          err |-> "nil"]

\* A Fetch that does not look at the status of the answer.
FetchAnyStatus(ctxState, resp) ==
    IF ctxState # "alive" \/ resp.kind \in {"neterr", "timeout"}
    THEN [tweet |-> NoTweet, err |-> "TransportError"]
    ELSE IF resp.kind = "badjson" THEN [tweet |-> NoTweet, err |-> "TwitterJSON"]
    ELSE IF resp.url = EmptyURL \/ resp.html = ""
         THEN [tweet |-> NoTweet, err |-> "TwitterFormat"]
    ELSE [tweet |-> [url |-> resp.url, text |-> extractTweetText(resp.html)],
          err |-> "nil"]

\* oembedTweetFetcher.Fetch, given the context's state and the answer of
\* the endpoint.
Fetch(ctxState, resp) ==
    IF ctxState = "canceled" THEN [tweet |-> NoTweet, err |-> "Canceled"]
    ELSE IF ctxState = "expired" THEN [tweet |-> NoTweet, err |-> "DeadlineExceeded"]
    ELSE IF resp.kind = "neterr" THEN [tweet |-> NoTweet, err |-> "TransportError"]
    ELSE IF resp.kind = "timeout" THEN [tweet |-> NoTweet, err |-> "DeadlineExceeded"]
    ELSE IF resp.kind = "status" THEN [tweet |-> NoTweet, err |-> "TwitterStatus"]
    ELSE IF resp.kind = "badjson" THEN [tweet |-> NoTweet, err |-> "TwitterJSON"]
    ELSE IF resp.url = EmptyURL \/ resp.html = ""
         THEN [tweet |-> NoTweet, err |-> "TwitterFormat"]
    ELSE [tweet |-> [url |-> resp.url, text |-> extractTweetText(resp.html)],
          err |-> "nil"]

\* A resolveTweet that leaves the result as it is when the fetch fails.
resolveTweetAsIs(ctxState, tweetURL, result, resp) ==
    LET f == Fetch(ctxState, resp)
    IN  IF f.err # "nil"
        THEN [result |-> result, err |-> f.err]
        ELSE [result |-> [result EXCEPT !.url = f.tweet.url, !.title = f.tweet.text],
              err |-> "nil"]

\* Resolver.resolveTweet.
resolveTweet(ctxState, tweetURL, result, resp) ==
    LET f == Fetch(ctxState, resp)
    IN  IF f.err # "nil"
        THEN [result |-> [result EXCEPT !.url = tweetURL], err |-> f.err]
        ELSE [result |-> [result EXCEPT !.url = f.tweet.url, !.title = f.tweet.text],
              err |-> "nil"]

\* ------------------------------------------------------------- sailthru

\* The third path segment of a click URL, the encoded target.  GroupPlain
\* and GroupDash are URL-safe base64 without padding of an absolute URL,
\* GroupDash with the character _ in it (for the ? of the URL); GroupRel
\* encodes the relative reference "foo"; GroupPct encodes "http://%%",
\* which does not parse; GroupPadded carries padding; GroupShort ("0") is
\* no base64.
GroupPlain == "aHR0cHM6Ly90YXJnZXQuZXhhbXBsZS94P3V0bV9jYW1wYWlnbj1mb28"

GroupDash == "aHR0cHM6Ly90YXJnZXQuZXhhbXBsZS94eXo_YT0x"

GroupRel == "Zm9v"

GroupPct == "aHR0cDovLyUlCg"

GroupPadded == "Zm9vYg=="

GroupShort == "0"

Groups == {GroupPlain, GroupDash, GroupRel, GroupPct, GroupPadded, GroupShort}

\* The URLs the groups encode.
TargetPlain ==
    MkURL("https", "target.example", "", <<"x">>, << <<"utm_campaign", "foo">> >>)

TargetDash == MkURL("https", "target.example", "", <<"xyz">>, << <<"a", "1">> >>)

TargetRel == MkURL("", "", "", <<"foo">>, <<>>)

\* sailthruRegex, the class of the captured group: [A-Za-z0-9=]+
inGroupClass(seg) == seg \in Groups \ {GroupDash}

\* sailthruRegex, the click id: \d+\.\d+
clickIDs == {"00000000.0000"}

\* sailthruRegex: ^https?://[^/]+/click/\d+\.\d+/([A-Za-z0-9=]+)/.+
\* (case-insensitive).
sailthruRegex(u) ==
    /\ ToLower(u.scheme) \in {"http", "https"}
    /\ u.host # ""
    /\ Len(u.path) >= 4
    /\ ToLower(u.path[1]) = "click"
    /\ u.path[2] \in clickIDs
    /\ inGroupClass(u.path[3])
    /\ u.path[4] # ""

\* matchSailthruURL: the captured group.
matchSailthruURL(u) ==
    IF sailthruRegex(u) THEN [ok |-> TRUE, group |-> u.path[3]]
    ELSE [ok |-> FALSE, group |-> ""]

\* base64.RawURLEncoding.DecodeString followed by url.Parse, on the groups
\* of the model: padding and a lone character are no valid encoding, and
\* "http://%%" does not parse; a relative reference does.
decodeAndParse(group) ==
    CASE group = GroupPlain -> [err |-> "nil", url |-> TargetPlain]
      [] group = GroupDash  -> [err |-> "nil", url |-> TargetDash]
      [] group = GroupRel   -> [err |-> "nil", url |-> TargetRel]
      [] group = GroupPct   -> [err |-> "ParseError", url |-> EmptyURL]
      [] OTHER              -> [err |-> "CorruptInput", url |-> EmptyURL]

\* decodeSailthruURL.
decodeSailthruURL(encodedURL) == decodeAndParse(encodedURL)

\* doResolve, the Sailthru unwrap: a given URL that matches and decodes is
\* recorded as a hop and replaced by the decoded URL.
unwrapSailthru(givenURL) ==
    LET m == matchSailthruURL(givenURL)
        d == decodeSailthruURL(m.group)
    IN  IF m.ok /\ d.err = "nil"
        THEN [url |-> d.url, hops |-> <<givenURL>>]
        ELSE [url |-> givenURL, hops |-> <<>>]

\* ------------------------------------------------------------- upstream

\* The inputs of the Resolve calls.  InPlainTracked and InPlain differ only
\* in a tracking parameter; InChain answers
\* with a redirect whose Location carries a tracking parameter and unsorted
\* keys; InTco redirects to a tweet; InTweet is a tweet with a media path.
InPlainTracked ==
    MkURL("http", "example.com", "", <<"foo">>, << <<"utm_source", "x">>, <<"a", "1">> >>)

InPlain == MkURL("http", "example.com", "", <<"foo">>, << <<"a", "1">> >>)

InChain == MkURL("http", "Example.COM", "", <<"a">>, <<>>)

InTco == MkURL("http", "t.co", "", <<"abc">>, <<>>)

InTweet ==
    MkURL("https", "twitter.com", "", <<"McCutchen", "status", "1234", "photo", "1">>,
          << <<"foo", "bar">> >>)

Inputs == {InPlainTracked, InPlain, InChain, InTco, InTweet}

\* Inputs of a resolve on its own.  InLoop enters a chain in which every
\* URL redirects to a further one; InHops redirects twice, the first time
\* with a Location that carries a tracking parameter and unsorted keys;
\* InInsta and InForbes redirect to an interstitial; InWebTweet is a tweet
\* in its /i/web/ form.
InLoop == MkURL("http", "loop.example", "", <<"0">>, <<>>)

InHops ==
    MkURL("http", "hops.example", "", <<"x">>, << <<"utm_source", "x">>, <<"a", "1">> >>)

InInsta == MkURL("http", "insta.example", "", <<"instagram">>, <<>>)

InForbes == MkURL("http", "forbes.example", "", <<"forbes">>, <<>>)

InWebTweet ==
    MkURL("https", "twitter.com", "", <<"i", "web", "status", "1234">>, <<>>)

\* Inputs on a host that sets a cookie: /a answers with Set-Cookie and a
\* redirect to /b on the same host, /out with Set-Cookie and a redirect to
\* another host, /b is a page.
InCookieA == MkURL("http", "cookie.example", "", <<"a">>, <<>>)

InCookieB == MkURL("http", "cookie.example", "", <<"b">>, <<>>)

InCookieOut == MkURL("http", "cookie.example", "", <<"out">>, <<>>)

LocElsewhere == MkURL("http", "other.example", "", <<"b">>, <<>>)

CookieInputs == {InCookieA, InCookieB, InCookieOut}

\* The cookies the upstream sets in its answer to a GET of u.
setCookies(u) ==
    IF u.host = "cookie.example" /\ u.path \in { <<"a">>, <<"out">> }
    THEN { [name |-> "foo", value |-> "bar"] }
    ELSE {}

\* Click URLs around each of the encoded targets.
Wrapped(group) ==
    MkURL("https", "link.example.com", "", <<"click", "00000000.0000", group, "0000">>,
          <<>>)

WrappedInputs == {Wrapped(g) : g \in Groups}

SoloInputs ==
    {InPlainTracked, InChain, InTco, InTweet, InLoop, InHops, InInsta, InForbes,
     InWebTweet}

\* The path each path of the endless chain redirects to.
nextPath ==
    [seg \in {"0", "1", "2", "3", "4", "5"} |->
        CASE seg = "0" -> "1" [] seg = "1" -> "2" [] seg = "2" -> "3"
          [] seg = "3" -> "4" [] seg = "4" -> "5" [] OTHER -> "0"]

LocY ==
    MkURL("http", "hops.example", "", <<"y">>,
          << <<"zzz", "1">>, <<"utm_campaign", "x">>, <<"AAA", "1">> >>)

LocZ == MkURL("http", "hops.example", "", <<"z">>, <<>>)

LocInsta ==
    MkURL("https", "www.instagram.com", "", <<"accounts", "login", "">>, <<>>)

LocForbes ==
    MkURL("https", "www.forbes.com", "", <<"forbes", "welcome", "">>, <<>>)

LocB ==
    MkURL("http", "example.com", "", <<"b">>,
          << <<"zzz", "1">>, <<"utm_campaign", "x">>, <<"AAA", "1">> >>)

LocTweet ==
    MkURL("https", "twitter.com", "", <<"McCutchen", "status", "1234", "photo", "1">>, <<>>)

\* The titles a page of the upstream may carry when it is fetched; a page
\* may change between two fetches.
Titles == {"title one", "title two"}

\* The bodies a redirect response may carry: one without a title element
\* (net/http's Redirect writes a bare link), or one with the title a
\* server puts on its redirect pages.
Stubs == {"", "302 Found"}

\* The answer of the upstream to a GET of u that reaches it: a redirect
\* with its Location, or a page.
upstream(u) ==
    CASE ToLower(u.host) = "example.com" /\ u.path = <<"a">> ->
            [kind |-> "redirect", loc |-> LocB, ctype |-> "text/html; charset=utf-8"]
      [] ToLower(u.host) = "t.co" ->
            [kind |-> "redirect", loc |-> LocTweet, ctype |-> "text/html; charset=utf-8"]
      [] u.host = "loop.example" /\ Len(u.path) = 1 /\ u.path[1] \in DOMAIN nextPath ->
            [kind |-> "redirect",
             loc |-> MkURL("http", "loop.example", "", <<nextPath[u.path[1]]>>, <<>>),
             ctype |-> "text/html; charset=utf-8"]
      [] u.host = "hops.example" /\ u.path = <<"x">> ->
            [kind |-> "redirect", loc |-> LocY, ctype |-> "text/html; charset=utf-8"]
      [] u.host = "hops.example" /\ u.path = <<"y">> ->
            [kind |-> "redirect", loc |-> LocZ, ctype |-> "text/html; charset=utf-8"]
      [] u.host = "cookie.example" /\ u.path = <<"a">> ->
            [kind |-> "redirect", loc |-> InCookieB, ctype |-> "text/html; charset=utf-8"]
      [] u.host = "cookie.example" /\ u.path = <<"out">> ->
            [kind |-> "redirect", loc |-> LocElsewhere, ctype |-> "text/html; charset=utf-8"]
      [] u.host = "insta.example" ->
            [kind |-> "redirect", loc |-> LocInsta, ctype |-> "text/html; charset=utf-8"]
      [] u.host = "forbes.example" ->
            [kind |-> "redirect", loc |-> LocForbes, ctype |-> "text/html; charset=utf-8"]
      [] u.host = "utf8.example" ->
            [kind |-> "page", loc |-> EmptyURL, ctype |-> "text/html; charset=utf-8"]
      [] OTHER ->
            [kind |-> "page", loc |-> EmptyURL, ctype |-> "text/html"]

\* ------------------------------------------------------------- resolver

NoResult == [url |-> EmptyURL, title |-> "", hops |-> <<>>]

\* strings.Contains(req.URL.String(), "instagram.com/accounts/login/")
isInstagramLogin(u) ==
    /\ u.host \in {"instagram.com", "www.instagram.com"}
    /\ u.port = ""
    /\ Len(u.path) >= 3
    /\ u.path[1] = "accounts"
    /\ u.path[2] = "login"

\* strings.Contains(req.URL.String(), "forbes.com/forbes/welcome")
isForbesWelcome(u) ==
    /\ u.host \in {"forbes.com", "www.forbes.com"}
    /\ u.port = ""
    /\ Len(u.path) >= 2
    /\ u.path[1] = "forbes"
    /\ u.path[2] = "welcome"

\* A checkRedirect that records nothing.
checkRedirectSilent(result, req, via) ==
    [result |-> result, follow |-> Len(via) < maxRedirects]

\* A checkRedirect that records the first request's URL at every hop.
checkRedirectFirst(result, req, via) ==
    [result |-> [result EXCEPT !.hops = Append(@, via[1])],
     follow |-> /\ Len(via) < maxRedirects
                /\ ~isInstagramLogin(req)
                /\ ~isForbesWelcome(req)]

\* A checkRedirect whose cap lets one more hop through.
checkRedirectOneMore(result, req, via) ==
    [result |-> [result EXCEPT !.hops = Append(@, via[Len(via)])],
     follow |-> /\ Len(via) <= maxRedirects
                /\ ~isInstagramLogin(req)
                /\ ~isForbesWelcome(req)]

\* redirectRecorder.checkRedirect(req, via): the previous request's URL is
\* recorded, then the hop is followed unless the cap is reached or the
\* target is an interstitial.
checkRedirect(result, req, via) ==
    [result |-> [result EXCEPT !.hops = Append(@, via[Len(via)])],
     follow |-> /\ Len(via) < maxRedirects
                /\ ~isInstagramLogin(req)
                /\ ~isForbesWelcome(req)]

\* shouldParseTitle.
shouldParseTitle(ctype) ==
    ctype \in {"text/html", "text/html; charset=utf-8", "application/html", ""}

\* findTitle on the body tokens of the model: a body that holds a title
\* element is named by the title, a body without one is "".
findTitle(body) ==
    IF body \in Titles \cup (Stubs \ {""}) THEN body ELSE ""

\* A maybeParseTitle that returns what it finds in the bytes it has,
\* whatever the read ended with.
maybeParseTitleAnyway(ctxState, read, body) ==
    [title |-> findTitle(body),
     err |-> IF ctxState = "alive" /\ read = "ok" THEN "nil" ELSE "ReadError"]

\* Resolver.maybeParseTitle once the response is at hand, given the
\* context's state and how the read of the body ends: read whole ("ok"),
\* cut by the client timeout, not a valid compressed stream, or bytes the
\* detected charset cannot decode.
maybeParseTitle(ctxState, read, body) ==
    IF ctxState = "canceled" THEN [title |-> "", err |-> "Canceled"]
    ELSE IF ctxState = "expired" THEN [title |-> "", err |-> "DeadlineExceeded"]
    ELSE IF read = "timeout" THEN [title |-> "", err |-> "DeadlineExceeded"]
    ELSE IF read = "badstream" THEN [title |-> "", err |-> "ReadError"]
    ELSE IF read = "badcharset" THEN [title |-> "", err |-> "DecodeError"]
    ELSE [title |-> findTitle(body), err |-> "nil"]

\* An error branch that leaves the partial result as it is.
errorResultKeep(result, errURL) == result

\* doResolve, the branch taken when httpClient.Do returns an error: the
\* URL the *url.Error carries is canonicalized into the partial result.
errorResult(result, errURL) ==
    [result EXCEPT !.url = Canonicalize(errURL)]

\* The error httpClient.Do returns for a request that does not complete.
doError(ctxState, outcome) ==
    IF ctxState = "canceled" THEN "Canceled"
    ELSE IF ctxState = "expired" THEN "DeadlineExceeded"
    ELSE IF outcome = "timeout" THEN "DeadlineExceeded"
    ELSE "TransportError"

\* Resolve without the canonicalization of the given URL.
sfKeyRaw(givenURL) == givenURL

\* url.Parse: a string with a path element that is no valid escape ("%%")
\* does not parse; every other string of the model does.
parses(givenURL) ==
    \A i \in 1..Len(givenURL.path) : givenURL.path[i] # "%%"

\* Resolver.Resolve: the key handed to singleflightGroup.Do is the
\* canonicalized input when the input parses, the input itself otherwise.
sfKey(givenURL) ==
    IF parses(givenURL) THEN Canonicalize(givenURL) ELSE givenURL

\* CachedResolver.Resolve: the key handed to cache.Get and cache.Add is
\* the url argument as given.
cacheKey(url) == url

\* A cached resolver that adds whatever the resolver returned.
shouldAddAlways(err) == TRUE

\* CachedResolver.Resolve: a result is added when the resolver returned
\* no error.
shouldAdd(err) == err = "nil"

\* ------------------------------------------------------------- state

Calls == 1..NCalls

VARIABLES
    pc,        \* where each call of CachedResolver.Resolve stands
    input,     \* the url argument of each call
    ctx,       \* each call's context: "alive", "canceled" or "expired"
    joined,    \* the singleflight call each caller of Do shares (its leader)
    flight,    \* per leader, the execution of doResolve it runs
    inflight,  \* the leaders whose key is in the singleflight group's map
    cache,     \* the entries of the cache
    now,       \* the clock
    out,       \* what each call returned
    dial,      \* the last call of the dialer's Control, or dial of a transport
    canon,     \* the last call of Canonicalize
    http,       \* the request the HTTP handler serves, and its response
    trip,       \* the last request through the fake browser transport
    cookies,    \* the cookie jar of each resolve, and the cookies requests carried
    pool,       \* the buffers of the pool, and the bytes maybeParseTitle holds
    streams,    \* per resolve, the response bodies it was handed: open or closed
    found,      \* the last call of findTitle on a document
    fetched    \* the last call of the tweet fetcher's Fetch on its own

vars == <<pc, input, ctx, joined, flight, inflight, cache, now, out, dial, canon, http, trip, cookies, pool, streams, found, fetched>>

\* No execution: the flight slot of a call that runs none.
\*   key       the givenURL doResolve was called with
\*   stage     "get" (a request is due), "body" (the response is at hand,
\*             its body unread), "tweet" (the tweet fetch is due), "done"
\*   cur       the URL of the request that is due
\*   via       the URLs of the requests answered so far, in order
\*   result    the Result under construction
\*   err       the error doResolve returned
\*   tweetURL  the URL matchTweetURL extracted
\*   ctype, body   Content-Type and body of the response at hand
\*   failed, cause   history: the URL whose request failed, and what ended
\*             the execution ("request", "body", "tweet", or "" for success)
\*   fault     history: what made the request or the read of the body fail
\*             (the outcome, or the state of the context if it was done)
NoFlight ==
    [key |-> EmptyURL, stage |-> "none", cur |-> EmptyURL, via |-> <<>>,
     result |-> NoResult, err |-> "nil", tweetURL |-> EmptyURL,
     ctype |-> "", body |-> "", failed |-> EmptyURL, cause |-> "",
     fault |-> ""]

\* What a call returned.  coalesced is the flag a caller can read off the
\* Result.  hit, stored and until are history: whether the
\* result came from the cache, whether the call's Add reached the store,
\* and the time up to which the TTL counted from the call's result lasts.
NoOut ==
    [result |-> NoResult, err |-> "nil", hit |-> FALSE, stored |-> FALSE, until |-> 0,
     coalesced |-> FALSE]

\* No dial yet.
\*   kind       "control" (Control called on its own), or the request the
\*              dial is for: "initial", "redirect", "oembed"
\*   network, host, port   the arguments Control sees, or would see
\*   err        the error of the dial
\*   connected  a TCP connection to host:port was established
NoDial ==
    [kind |-> "", network |-> "", host |-> "", port |-> "", err |-> "nil",
     connected |-> FALSE]

\* No round trip yet.
\*   called  RoundTrip was called
\*   given   the header of the request RoundTrip was given: per name, the
\*           values the request carries (<<>>: the header is absent)
\*   sent    the header of the request handed to the wrapped transport
NoRoundTrip == [called |-> FALSE, given |-> <<>>, sent |-> <<>>]

\* No cookies yet.
\*   jar   per resolve (by the call that leads it), the cookies of the jar
\*         of its client; by is history, the resolve whose response set
\*         the cookie
\*   sent  history: the cookies requests carried, with the resolve the
\*         request belongs to and its URL
NoCookies == [jar |-> [c \in Calls |-> {}], sent |-> {}]

\* No call of Canonicalize yet.
\*   called  Canonicalize was called
\*   given   the URL value the caller parsed and passed
\*   arg     the caller's URL value after the call
\*   once    the URL returned
\*   twice   the URL returned by Canonicalize on once, parsed
NoCanon ==
    [called |-> FALSE, given |-> EmptyURL, arg |-> EmptyURL, once |-> EmptyURL,
     twice |-> EmptyURL]

\* The argument url of a request's query string.
\*   present  the query string has a url parameter
\*   bad      text of the parameter that url.Parse rejects ("" if none)
\*   url      the URL the text of the parameter parses to
NoArg == [present |-> FALSE, bad |-> "", url |-> EmptyURL]

\* No body written.
\*   kind  "none", "error" (the object sendError writes) or "result"
\*         (a ResolveResponse)
NoBody == [kind |-> "none", given_url |-> EmptyURL, resolved_url |-> EmptyURL,
           title |-> "", error |-> ""]

\* No request yet.
\*   phase   "none", "resolving" (ServeHTTP is in resolver.Resolve) or "done"
\*   method, arg   the request
\*   errv    the error value Resolve returned, as the chain of the errors
\*           it wraps, outermost first (<<>> is nil)
\*   code, cacheControl, contentType, body   the response
NoExchange ==
    [phase |-> "none", method |-> "", arg |-> NoArg, errv |-> <<>>, code |-> 0,
     cacheControl |-> "", contentType |-> "", body |-> NoBody]

\* The buffers the pool hands out, and nothing read: bytes is what each
\* buffer's array holds, body what peekBody returned to each execution, as the buffer whose array the
\* slice shares (alias, 0 for none) or the copy the decoder made.
Buffers == 1..NBuffers

NoPeek == [peeked |-> FALSE, alias |-> 0, copy |-> ""]

NoPool ==
    [bytes |-> [b \in Buffers |-> ""], body |-> [c \in Calls |-> NoPeek]]

\* No response handed to any resolve yet: page is the body of the response
\* httpClient.Do returned to doResolve, oembed the body of the response the
\* tweet fetcher's client returned to Fetch; each "none", "open" or
\* "closed".
NoStreams == [c \in Calls |-> [page |-> "none", oembed |-> "none"]]

\* doResolve once httpClient.Do returned, for the execution g it leads to:
\* an error or a redirect that is followed hands no body to doResolve; a
\* response does, and doResolve defers its Close, which runs at once when
\* doResolve returns without reading.
pageBodyAfterDo(g) ==
    IF g.cause = "request" \/ g.stage = "get" THEN "none"
    ELSE IF g.stage = "done" THEN "closed"
    ELSE "open"

\* doResolve's `defer resp.Body.Close()`, run at its return.
deferredClose(body) == IF body = "open" THEN "closed" ELSE body

\* oembedTweetFetcher.Fetch: when its client's Do returns a response, Fetch
\* reads the body and returns; no path of it calls resp.Body.Close().
oembedBodyAfterFetch(ctxState, resp) ==
    IF ctxState # "alive" \/ resp.kind \in {"neterr", "timeout"} THEN "none"
    ELSE "open"

\* No call of findTitle on a document yet.
NoFind == [called |-> FALSE, body |-> <<>>, title |-> <<>>]

\* No call of Fetch on its own yet.
NoFetch ==
    [called |-> FALSE, ctx |-> "alive",
     resp |-> [kind |-> "neterr", url |-> EmptyURL, html |-> ""],
     tweet |-> NoTweet, err |-> "nil"]

Init ==
    /\ pc = [c \in Calls |-> "idle"]
    /\ input = [c \in Calls |-> EmptyURL]
    /\ ctx = [c \in Calls |-> "alive"]
    /\ joined = [c \in Calls |-> 0]
    /\ flight = [c \in Calls |-> NoFlight]
    /\ inflight = {}
    /\ cache = {}
    /\ now = 0
    /\ out = [c \in Calls |-> NoOut]
    /\ dial = NoDial
    /\ canon = NoCanon
    /\ http = NoExchange
    /\ trip = NoRoundTrip
    /\ cookies = NoCookies
    /\ pool = NoPool
    /\ streams = NoStreams
    /\ found = NoFind
    /\ fetched = NoFetch

\* A cache that never finds an entry.
cacheGetMiss(key) == {}

\* Cache.Get: the entry stored under key, if it has not expired.
cacheGet(key) == {e \in cache : e.key = key /\ now < e.expires}

\* Cache.Add: the entry replaces the one stored under key and expires
\* cacheTTL from now.  srcErr and by are history: the error the stored
\* result was returned with, and the call that stored it.
cacheAdd(key, result, err, c) ==
    {e \in cache : e.key # key}
        \cup {[key |-> key, result |-> result, expires |-> now + cacheTTL,
               srcErr |-> err, by |-> c]}

\* An execution that runs under the context of a caller waiting on it.
flightCtxWaiter(l) ==
    IF \E c \in Calls : c # l /\ joined[c] = l
    THEN CHOOSE c \in Calls : c # l /\ joined[c] = l
    ELSE l

\* The context the execution led by l runs under: the ctx its closure
\* captured, the leader's.
flightCtx(l) == l

\* A doResolve without the tweet short-circuit on the given URL.
startResolveNoTweet(givenURL) ==
    [NoFlight EXCEPT !.key = givenURL,
                     !.result = [NoResult EXCEPT !.url = givenURL],
                     !.stage = "get", !.cur = givenURL]

\* doResolve from its entry to its first suspension: the tweet
\* short-circuit on the given URL, the error of http.NewRequestWithContext
\* for a URL that does not parse, or the first request.
startResolve(givenURL) ==
    LET w == unwrapSailthru(givenURL)
        m == matchTweetURL(w.url)
        f == [NoFlight EXCEPT !.key = givenURL,
                              !.result = [NoResult EXCEPT !.url = givenURL,
                                                          !.hops = w.hops]]
    IN  IF m.ok
        THEN [f EXCEPT !.stage = "tweet", !.tweetURL = m.url]
        ELSE IF ~parses(w.url)
        THEN [f EXCEPT !.stage = "done", !.err = "InvalidURLEscape",
                       !.failed = w.url, !.cause = "parse", !.fault = "parse"]
        ELSE [f EXCEPT !.stage = "get", !.cur = w.url]

\* A doResolve without the second tweet check.
afterResponseNoTweet(f, result, ctype, body) ==
    LET res == [result EXCEPT !.url = Canonicalize(f.cur)]
        g   == [f EXCEPT !.via = Append(f.via, f.cur), !.result = res,
                         !.ctype = ctype, !.body = body]
    IN  IF shouldParseTitle(ctype) THEN [g EXCEPT !.stage = "body"]
        ELSE [g EXCEPT !.stage = "done"]

\* doResolve once httpClient.Do returned resp without error: the
\* canonicalized URL of resp.Request, the second tweet check, and the
\* choice between parsing a title and returning.
afterResponse(f, result, ctype, body) ==
    LET res == [result EXCEPT !.url = Canonicalize(f.cur)]
        m   == matchTweetURL(res.url)
        g   == [f EXCEPT !.via = Append(f.via, f.cur), !.result = res,
                         !.ctype = ctype, !.body = body]
    IN  IF m.ok THEN [g EXCEPT !.stage = "tweet", !.tweetURL = m.url]
        ELSE IF shouldParseTitle(ctype) THEN [g EXCEPT !.stage = "body"]
        ELSE [g EXCEPT !.stage = "done"]

\* httpClient.Do sends a request only to a URL with a scheme and a host;
\* for any other it returns an error.
canSend(u) == u.scheme # "" /\ u.host # ""

\* One request of httpClient.Do, given the context's state, how the
\* request ends ("ok": answered), the title the page carries if the
\* answer is a page, and the body of the answer if it is a redirect.
doRequest(f, ctxState, outcome, title, stub) ==
    IF ctxState # "alive" \/ outcome # "ok" \/ ~canSend(f.cur)
    THEN [f EXCEPT !.stage = "done",
                   !.result = errorResult(f.result, f.cur),
                   !.err = doError(ctxState, outcome),
                   !.failed = f.cur,
                   !.cause = "request",
                   !.fault = IF ctxState # "alive" THEN ctxState
                             ELSE IF ~canSend(f.cur) THEN "scheme"
                             ELSE outcome]
    ELSE LET r == upstream(f.cur)
         IN  IF r.kind = "redirect"
             THEN LET cr == checkRedirect(f.result, r.loc, Append(f.via, f.cur))
                  IN  IF cr.follow
                      THEN [f EXCEPT !.via = Append(f.via, f.cur),
                                     !.cur = r.loc,
                                     !.result = cr.result]
                      ELSE afterResponse(f, cr.result, r.ctype, stub)
             ELSE afterResponse(f, f.result, r.ctype, title)

\* A resolver that keeps one cookie jar for all its clients.
jarOfClientShared(l) == 1

\* Resolver.httpClient: the jar of the client of the resolve led by l is
\* one made for that client.
jarOfClient(l) == l

\* The cookie handling of http.Client around one request to u: the request
\* carries the cookies of the jar that match its host, and the cookies of
\* the answer go into the jar.
roundTripCookies(l, u, ctxState, outcome) ==
    LET j == jarOfClient(l)
        isSent == ctxState = "alive" /\ canSend(u)
        carried == {c \in cookies.jar[j] : c.host = ToLower(u.host)}
        received == {[host |-> ToLower(u.host), name |-> s.name, value |-> s.value,
                      by |-> l] : s \in setCookies(u)}
    IN  [jar |-> IF isSent /\ outcome = "ok"
                 THEN [cookies.jar EXCEPT ![j] = @ \cup received]
                 ELSE cookies.jar,
         sent |-> IF isSent
                  THEN cookies.sent \cup {[by |-> l, url |-> u, cookie |-> c] : c \in carried}
                  ELSE cookies.sent]

\* singleflight: the call completes; its key leaves the group's map and
\* the leader is about to return from Do.
complete(l, f) ==
    /\ flight' = [flight EXCEPT ![l] = [f EXCEPT !.stage = "done"]]
    /\ inflight' = inflight \ {l}
    /\ pc' = [pc EXCEPT ![l] = "ret"]

\* The execution led by l moves to f, completing the call if f is final.
advance(l, f) ==
    IF f.stage = "done"
    THEN complete(l, f)
    ELSE /\ flight' = [flight EXCEPT ![l] = f]
         /\ UNCHANGED <<inflight, pc>>

\* singleflight: the third value of Do, whether the call led by l was
\* shared with another caller.
doShared(l) == \E d \in Calls : d # l /\ joined[d] = l

\* Resolver.Resolve: the third value of Do is discarded (val, err, _), and
\* Result has no field for it.
coalescedOf(sharedFlag) == FALSE

\* A Do that hands the value but not the error.
sharedValueOnly(f) == [result |-> f.result, err |-> "nil"]

\* What Do hands to a caller sharing the call whose execution is f.
shared(f) == [result |-> f.result, err |-> f.err]

\* ------------------------------------------------------------- actions

\* CachedResolver.Resolve(ctx, u) up to the return of cache.Get: a hit
\* returns the cached result, a miss goes on to the resolver.  Calls are
\* numbered in the order they are made.
CachedGet(c, u) ==
    /\ pc[c] = "idle"
    /\ c > 1 => pc[c - 1] # "idle"
    /\ input' = [input EXCEPT ![c] = u]
    /\ LET hit == cacheGet(cacheKey(u))
       IN  IF hit # {}
           THEN /\ \E e \in hit :
                     out' = [out EXCEPT ![c] = [result |-> e.result, err |-> "nil",
                                                hit |-> TRUE, stored |-> FALSE,
                                                until |-> e.expires,
                                                coalesced |-> FALSE]]
                /\ pc' = [pc EXCEPT ![c] = "done"]
           ELSE /\ pc' = [pc EXCEPT ![c] = "resolve"]
                /\ UNCHANGED out
    /\ UNCHANGED <<http, dial, canon, ctx, joined, flight, inflight, cache, now, trip, cookies, pool, streams, found, fetched>>

\* A singleflight group whose map never holds a call.
inFlightForNone(key) == {}

\* singleflight.Group.Do: the calls in flight under the key in the
\* group's map.
inFlightFor(key) == {l \in inflight : flight[l].key = key}

\* Resolver.Resolve up to the point where singleflightGroup.Do either
\* blocks on the call in flight for the key or starts fn.
Resolve(c) ==
    /\ pc[c] = "resolve"
    /\ LET key == sfKey(input[c])
           leaders == inFlightFor(key)
       IN  IF leaders # {}
           THEN /\ \E l \in leaders : joined' = [joined EXCEPT ![c] = l]
                /\ pc' = [pc EXCEPT ![c] = "wait"]
                /\ UNCHANGED <<flight, inflight>>
           ELSE /\ joined' = [joined EXCEPT ![c] = c]
                /\ flight' = [flight EXCEPT ![c] = startResolve(key)]
                /\ inflight' = inflight \cup {c}
                /\ pc' = [pc EXCEPT ![c] = "run"]
    /\ UNCHANGED <<http, dial, canon, input, ctx, cache, now, out, trip, cookies, pool, streams, found, fetched>>

\* httpClient.Do: one request of the chain and what follows it without
\* suspension.
DoGet(l) ==
    /\ pc[l] = "run"
    /\ flight[l].stage = "get"
    /\ \E outcome \in {"ok", "timeout", "neterr"}, title \in Titles, stub \in Stubs :
           LET g == doRequest(flight[l], ctx[flightCtx(l)], outcome, title, stub)
           IN  /\ advance(l, g)
               /\ cookies' = roundTripCookies(l, flight[l].cur, ctx[flightCtx(l)], outcome)
               /\ streams' = [streams EXCEPT ![l].page = pageBodyAfterDo(g)]
    /\ UNCHANGED <<http, dial, canon, input, ctx, joined, cache, now, out, trip, pool, found, fetched>>

\* maybeParseTitle on the response at hand, and the return of doResolve.
ReadBody(l) ==
    /\ pc[l] = "run"
    /\ flight[l].stage = "body"
    /\ \E read \in {"ok", "timeout", "badstream", "badcharset"} :
           LET f == flight[l]
               cs == ctx[flightCtx(l)]
               m == maybeParseTitle(cs, read, f.body)
           IN  complete(l, [f EXCEPT !.result = [f.result EXCEPT !.title = m.title],
                                     !.err = m.err,
                                     !.cause = IF m.err = "nil" THEN "" ELSE "body",
                                     !.fault = IF cs # "alive" THEN cs
                                               ELSE IF read = "ok" THEN "" ELSE read])
    /\ streams' = [streams EXCEPT ![l].page = deferredClose(@)]
    /\ UNCHANGED <<http, dial, canon, input, ctx, joined, cache, now, out, trip, cookies, pool, found, fetched>>

\* resolveTweet, and the return of doResolve.
FetchTweet(l) ==
    /\ pc[l] = "run"
    /\ flight[l].stage = "tweet"
    /\ \E resp \in oembedResponses(flight[l].tweetURL) :
           LET f == flight[l]
               cs == ctx[flightCtx(l)]
               rt == resolveTweet(cs, f.tweetURL, f.result, resp)
           IN  /\ complete(l, [f EXCEPT !.result = rt.result,
                                     !.err = rt.err,
                                     !.cause = IF rt.err = "nil" THEN "" ELSE "tweet"])
               /\ streams' = [streams EXCEPT
                                 ![l] = [page |-> deferredClose(@.page),
                                         oembed |-> oembedBodyAfterFetch(cs, resp)]]
    /\ UNCHANGED <<http, dial, canon, input, ctx, joined, cache, now, out, trip, cookies, pool, found, fetched>>

\* Do returns to a caller (the leader, or one that waited on the call),
\* Resolver.Resolve returns, and CachedResolver.Resolve adds the result to
\* the cache if there was no error.  cache.Set under a context that is
\* done may or may not reach the store.
Return(c) ==
    /\ \/ pc[c] = "ret"
       \/ pc[c] = "wait" /\ flight[joined[c]].stage = "done"
    /\ LET r == shared(flight[joined[c]])
       IN  \E stored \in BOOLEAN :
               /\ stored => shouldAdd(r.err)
               /\ (shouldAdd(r.err) /\ ctx[c] = "alive") => stored
               /\ cache' = IF stored
                           THEN cacheAdd(cacheKey(input[c]), r.result, r.err, c)
                           ELSE cache
               /\ out' = [out EXCEPT ![c] = [result |-> r.result, err |-> r.err,
                                             hit |-> FALSE, stored |-> stored,
                                             until |-> now + cacheTTL,
                                             coalesced |-> coalescedOf(doShared(joined[c]))]]
    /\ pc' = [pc EXCEPT ![c] = "done"]
    /\ UNCHANGED <<http, dial, canon, input, ctx, joined, flight, inflight, now, trip, cookies, pool, streams, found, fetched>>

\* The caller cancels a call's context, or its deadline passes.
Cancel(c, kind) ==
    /\ pc[c] \in {"resolve", "run", "wait", "ret"}
    /\ ctx[c] = "alive"
    /\ Cardinality({d \in Calls : ctx[d] # "alive"}) < MaxCancels
    /\ ctx' = [ctx EXCEPT ![c] = kind]
    /\ UNCHANGED <<http, dial, canon, pc, input, joined, flight, inflight, cache, now, out, trip, cookies, pool, streams, found, fetched>>

\* Time passes; the store drops the entries that expire.
Tick ==
    /\ now < MaxClock
    /\ now' = now + 1
    /\ cache' = {e \in cache : now + 1 < e.expires}
    /\ UNCHANGED <<http, dial, canon, pc, input, ctx, joined, flight, inflight, out, trip, cookies, pool, streams, found, fetched>>

Next ==
    \/ \E c \in 1..NAny, u \in Inputs : CachedGet(c, u)
    \/ \E c \in Calls : Resolve(c)
    \/ \E l \in Calls : DoGet(l)
    \/ \E l \in Calls : ReadBody(l)
    \/ \E l \in Calls : FetchTweet(l)
    \/ \E c \in Calls : Return(c)
    \/ \E c \in Calls, kind \in {"canceled", "expired"} : Cancel(c, kind)
    \/ Tick

Spec == Init /\ [][Next]_vars

\* The same program under repeated resolves of one input.
NextRepeat ==
    \/ \E c \in Calls : CachedGet(c, InPlain)
    \/ \E c \in Calls : Resolve(c)
    \/ \E l \in Calls : DoGet(l)
    \/ \E l \in Calls : ReadBody(l)
    \/ \E c \in Calls : Return(c)
    \/ \E c \in Calls, kind \in {"canceled", "expired"} : Cancel(c, kind)
    \/ Tick

SpecRepeat == Init /\ [][NextRepeat]_vars

\* One resolve on its own, over the inputs that exercise the redirect
\* policy and the tweet paths.
NextSolo ==
    \/ \E u \in SoloInputs : CachedGet(1, u)
    \/ Resolve(1)
    \/ DoGet(1)
    \/ ReadBody(1)
    \/ FetchTweet(1)
    \/ Return(1)
    \/ \E kind \in {"canceled", "expired"} : Cancel(1, kind)

SpecSolo == Init /\ [][NextSolo]_vars

\* One resolve on its own, of a click URL.
NextWrapped ==
    \/ \E u \in WrappedInputs : CachedGet(1, u)
    \/ Resolve(1)
    \/ DoGet(1)
    \/ ReadBody(1)
    \/ Return(1)
    \/ \E kind \in {"canceled", "expired"} : Cancel(1, kind)

SpecWrapped == Init /\ [][NextWrapped]_vars

\* ------------------------------------------------------------- claims

\* The call c is part of an execution that has not completed.
InFlight(c) == joined[c] # 0 /\ joined[c] \in inflight

\* C1: calls in flight at the same moment whose inputs have the same
\* canonical form share one execution of doResolve, and a call that
\* joined another's execution issues no upstream request of its own.
C1_OneExecutionPerKey ==
    /\ \A c1, c2 \in Calls :
           (/\ InFlight(c1)
            /\ InFlight(c2)
            /\ Canonicalize(input[c1]) = Canonicalize(input[c2]))
               => joined[c1] = joined[c2]
    /\ \A c \in Calls :
           (joined[c] # 0 /\ joined[c] # c) => flight[c] = NoFlight

\* Two calls with different inputs of one canonical form shared an
\* execution that issued an upstream request, and both returned.
C1_Witness ==
    \E c1, c2 \in Calls :
        /\ c1 # c2
        /\ input[c1] # input[c2]
        /\ joined[c2] = c1
        /\ Len(flight[c1].via) = 1
        /\ pc[c1] = "done"
        /\ pc[c2] = "done"

\* C2: every caller that shared an execution returns the result and the
\* error that execution produced, so all its callers return the same.
C2_SharedResult ==
    \A c \in Calls :
        (pc[c] = "done" /\ joined[c] # 0) =>
            /\ out[c].result = flight[joined[c]].result
            /\ out[c].err = flight[joined[c]].err
            /\ pc[joined[c]] = "done" =>
                   /\ out[c].result = out[joined[c]].result
                   /\ out[c].err = out[joined[c]].err

\* A caller that waited on another's execution returned its error and
\* its partial result, hops included.
C2_Witness ==
    \E c \in Calls :
        /\ pc[c] = "done"
        /\ joined[c] # 0
        /\ joined[c] # c
        /\ out[c].err = "TransportError"
        /\ out[c].result.hops # <<>>
        /\ out[c].result.url # EmptyURL

\* C3 (amended): an execution ends on a cancelled context only if the
\* context of the caller that started it is cancelled; the cancellation
\* of a caller that waits on it never ends it.
C3_LeaderContextOnly ==
    \A l \in Calls :
        flight[l].err = "Canceled" => ctx[l] = "canceled"

\* A waiting caller's context was cancelled, the execution it shares
\* completed without error, and the caller returned that result.
C3_Witness ==
    \E l, c \in Calls :
        /\ c # l
        /\ joined[c] = l
        /\ ctx[c] = "canceled"
        /\ ctx[l] = "alive"
        /\ flight[l].stage = "done"
        /\ flight[l].err = "nil"
        /\ pc[c] = "done"
        /\ out[c].err = "nil"

\* C3 (as stated): a shared execution is cancelled only when every caller
\* sharing it has cancelled.
C3_AsStated ==
    \A l \in Calls :
        (flight[l].stage = "done" /\ flight[l].err = "Canceled") =>
            \A c \in Calls : joined[c] = l => ctx[c] = "canceled"

\* The call c makes its step from CachedResolver.Resolve's entry.
Enters(c) == pc[c] = "idle" /\ pc'[c] # "idle"

\* The call c returns in this step.
Returns(c) == pc[c] # "done" /\ pc'[c] = "done"

C5_NoErrorCached ==
    [][ /\ \A e \in cache' : e.srcErr = "nil"
        /\ \A c \in Calls :
               (Returns(c) /\ out'[c].err # "nil") => cache' = cache
        /\ \A c \in Calls :
               (Enters(c) /\ ~\E e \in cache : e.key = input'[c]) => pc'[c] = "resolve"
      ]_vars

\* A call returned an error with a partial result, the cache is empty,
\* and a call of the same input is at the inner resolver.
C5_Witness ==
    \E c1, c2 \in Calls :
        /\ c1 < c2
        /\ pc[c1] = "done"
        /\ out[c1].err # "nil"
        /\ out[c1].result.url # EmptyURL
        /\ cache = {}
        /\ input[c2] = input[c1]
        /\ joined[c2] = c2
        /\ pc[c2] = "run"

\* C6 (as stated): a resolve whose input has the canonical form of the
\* key of an unexpired entry is a hit.
C6_AsStated ==
    [][ \A c \in Calls :
            (/\ Enters(c)
             /\ \E e \in cache :
                    /\ now < e.expires
                    /\ Canonicalize(e.key) = Canonicalize(input'[c])) =>
                pc'[c] = "done"
      ]_vars

\* The URL of the last request of the execution led by l that was
\* answered, or the empty URL if none was.
lastFetched(l) ==
    IF flight[l].via = <<>> THEN EmptyURL ELSE flight[l].via[Len(flight[l].via)]

\* The URLs, among those the execution led by l requested, that answered
\* with a redirect.
redirecting(l) ==
    SelectSeq(flight[l].via, LAMBDA u : upstream(u).kind = "redirect")

\* C7: every call that returned, with whatever outcome, returned a
\* non-empty resolved_url.
C7_ResolvedURLPopulated ==
    \A c \in Calls :
        pc[c] = "done" =>
            /\ out[c].result.url # EmptyURL
            /\ out[c].result.url.host # ""

\* A call returned the error of a tweet fetch whose answer lacked a
\* field, and another call returned on a deadline.
C7_Witness ==
    \E c1, c2 \in Calls :
        /\ pc[c1] = "done"
        /\ out[c1].err = "TwitterFormat"
        /\ pc[c2] = "done"
        /\ out[c2].err = "DeadlineExceeded"

\* C8 (amended): the resolved_url of a completed execution is the
\* canonical form of the URL of the final response on the generic path
\* (with or without a body error), the canonical form of the URL whose
\* request failed on a request error, the URL the oEmbed answer reports,
\* as reported, when a tweet fetch succeeds, and the tweet URL matched in
\* the canonical input or final URL when a tweet fetch fails.
C8_ResolvedURLByPath ==
    \A l \in Calls :
        flight[l].stage = "done" =>
            LET f == flight[l]
                reached == IF f.via = <<>>
                           THEN Canonicalize(input[l])
                           ELSE Canonicalize(lastFetched(l))
            IN  CASE f.cause = "request" -> f.result.url = Canonicalize(f.failed)
                  [] f.cause = "body"    -> f.result.url = reached
                  [] f.cause = "tweet"   -> f.result.url = matchTweetURL(reached).url
                  [] OTHER ->
                        IF matchTweetURL(reached).ok
                        THEN /\ f.result.url # EmptyURL
                             /\ \E r \in oembedResponses(matchTweetURL(reached).url) :
                                    f.result.url = r.url
                        ELSE f.result.url = reached

\* A request failed after a redirect was followed, and the result holds
\* the canonical form of the failing URL, which is not that of the input.
C8_Witness ==
    \E l \in Calls :
        /\ flight[l].stage = "done"
        /\ flight[l].cause = "request"
        /\ flight[l].via # <<>>
        /\ flight[l].result.url = Canonicalize(flight[l].failed)
        /\ flight[l].result.url # Canonicalize(input[l])
        /\ flight[l].failed # Canonicalize(flight[l].failed)

\* C8 (as stated), on the tweet paths: the resolved_url is the canonical
\* form of the final URL fetched, or of the input if nothing was fetched.
C8_AsStated ==
    \A l \in Calls :
        (flight[l].stage = "done" /\ flight[l].tweetURL # EmptyURL) =>
            flight[l].result.url =
                IF flight[l].via = <<>>
                THEN Canonicalize(input[l])
                ELSE Canonicalize(lastFetched(l))

\* C9: an execution that ended on a request that failed returned an
\* error, DeadlineExceeded if a deadline passed, with the canonical form
\* of the failing URL, the URLs requested before it as intermediate URLs,
\* and no title; and that is what its caller returned.
C9_RequestFailure ==
    \A l \in Calls :
        (flight[l].stage = "done" /\ flight[l].cause = "request") =>
            LET f == flight[l]
            IN  /\ f.err # "nil"
                /\ f.fault \in {"timeout", "expired"} => f.err = "DeadlineExceeded"
                /\ f.fault = "neterr" => f.err = "TransportError"
                /\ f.result.url = Canonicalize(f.failed)
                /\ f.result.hops = f.via
                /\ f.result.title = ""
                /\ pc[l] = "done" => out[l].result = f.result /\ out[l].err = f.err

\* The request that followed a redirect timed out and the call returned.
C9_Witness ==
    \E l \in Calls :
        /\ pc[l] = "done"
        /\ flight[l].cause = "request"
        /\ flight[l].fault = "timeout"
        /\ Len(flight[l].via) = 1
        /\ out[l].err = "DeadlineExceeded"
        /\ Len(out[l].result.hops) = 1

\* C10: an execution that ended on a failure to read or decode the body
\* of the final response returned that error with the canonical form of
\* the final URL, the redirecting URLs before it as intermediate URLs, and
\* no title; and that is what its caller returned.
C10_BodyFailure ==
    \A l \in Calls :
        (flight[l].stage = "done" /\ flight[l].cause = "body") =>
            LET f == flight[l]
            IN  /\ f.err # "nil"
                /\ f.fault = "badstream" => f.err = "ReadError"
                /\ f.fault = "badcharset" => f.err = "DecodeError"
                /\ f.fault \in {"timeout", "expired"} => f.err = "DeadlineExceeded"
                /\ f.result.url = Canonicalize(lastFetched(l))
                /\ f.result.hops = redirecting(l)
                /\ f.result.title = ""
                /\ pc[l] = "done" => out[l].result = f.result /\ out[l].err = f.err

\* The body of the page a redirect led to could not be read, and the
\* call returned the error with the hop and the canonical final URL.
C10_Witness ==
    \E l \in Calls :
        /\ pc[l] = "done"
        /\ flight[l].cause = "body"
        /\ flight[l].fault \in {"badstream", "timeout"}
        /\ out[l].err # "nil"
        /\ out[l].result.hops # <<>>
        /\ out[l].result.url # lastFetched(l)
        /\ out[l].result.title = ""

\* ------------------------------------------------------------- safedialer

\* IP addresses: an IPv4 address (written dotted, or as an IPv4-mapped
\* IPv6 address) with its four bytes, or an IPv6 address with its first
\* two bytes.
IP4(a, b, c, d) == [fam |-> "v4", b |-> <<a, b, c, d>>]

Mapped(a, b, c, d) == [fam |-> "mapped", b |-> <<a, b, c, d>>]

IP6(a, b) == [fam |-> "v6", b |-> <<a, b>>]

\* The IPv4 addresses of the model: addresses inside each reserved block
\* and addresses next to its bounds.
IPv4Addrs ==
    { IP4(0, 1, 2, 3), IP4(1, 1, 1, 1), IP4(9, 255, 255, 255),
      IP4(10, 51, 50, 10), IP4(11, 0, 0, 0),
      IP4(100, 63, 255, 255), IP4(100, 64, 0, 1), IP4(100, 127, 255, 255),
      IP4(100, 128, 0, 0),
      IP4(126, 255, 255, 255), IP4(127, 0, 0, 1), IP4(128, 0, 0, 1),
      IP4(169, 253, 255, 255), IP4(169, 254, 169, 254), IP4(169, 255, 0, 0),
      IP4(172, 15, 255, 255), IP4(172, 16, 0, 1), IP4(172, 31, 255, 255),
      IP4(172, 32, 0, 0),
      IP4(192, 0, 0, 1), IP4(192, 0, 1, 1), IP4(192, 0, 2, 1), IP4(192, 0, 3, 1),
      IP4(192, 88, 98, 1), IP4(192, 88, 99, 1), IP4(192, 88, 100, 1),
      IP4(192, 167, 255, 255), IP4(192, 168, 1, 1), IP4(192, 169, 0, 0),
      IP4(198, 17, 255, 255), IP4(198, 18, 0, 1), IP4(198, 19, 255, 255),
      IP4(198, 20, 0, 0),
      IP4(198, 51, 99, 255), IP4(198, 51, 100, 7), IP4(198, 51, 101, 0),
      IP4(203, 0, 112, 255), IP4(203, 0, 113, 5), IP4(203, 0, 114, 0),
      IP4(223, 255, 255, 255), IP4(224, 0, 0, 1), IP4(239, 255, 255, 255),
      IP4(240, 0, 0, 1), IP4(255, 255, 255, 255),
      IP4(185, 199, 111, 153) }

MappedAddrs ==
    { Mapped(10, 51, 50, 10), Mapped(127, 0, 0, 1), Mapped(185, 199, 111, 153) }

\* ::1, 1fff::, 2000::, 2606:..., 3fff::, 4000::, fc00::, fe80::, ff02::
IPv6Addrs ==
    { IP6(0, 0), IP6(31, 255), IP6(32, 0), IP6(38, 6), IP6(63, 255), IP6(64, 0),
      IP6(252, 0), IP6(254, 128), IP6(255, 2) }

IPs == IPv4Addrs \cup MappedAddrs \cup IPv6Addrs

\* A host that is no IP literal ("zzz").
NotAnIP == [fam |-> "name", b |-> <<>>]

Hosts == IPs \cup {NotAnIP}

\* net.ParseIP(host) == nil
ParseIPNil(host) == host.fam = "name"

\* address.To4() != nil
To4(ip) == ip.fam \in {"v4", "mapped"}

\* net.IPNet.Contains for a network given by its bytes and prefix length:
\* the leading prefix bits of the address are those of the network.
Contains(network, prefix, b) ==
    LET full == prefix \div 8
        rest == prefix % 8
    IN  /\ \A i \in 1..full : b[i] = network[i]
        /\ rest # 0 =>
               b[full + 1] \div 2^(8 - rest) = network[full + 1] \div 2^(8 - rest)

\* safedialer: reservedIPv4Nets, each net with its prefix length.
reservedIPv4Nets ==
    << <<0, 0, 0, 0, 8>>, <<10, 0, 0, 0, 8>>, <<100, 64, 0, 0, 10>>,
       <<127, 0, 0, 0, 8>>, <<169, 254, 0, 0, 16>>, <<172, 16, 0, 0, 12>>,
       <<192, 0, 0, 0, 24>>, <<192, 0, 2, 0, 24>>, <<192, 88, 99, 0, 24>>,
       <<192, 168, 0, 0, 16>>, <<198, 18, 0, 0, 15>>, <<198, 51, 100, 0, 24>>,
       <<203, 0, 113, 0, 24>>, <<224, 0, 0, 0, 4>>, <<240, 0, 0, 0, 4>> >>

\* A table of reserved nets without the carrier-grade NAT block.
reservedIPv4NetsShort ==
    << <<0, 0, 0, 0, 8>>, <<10, 0, 0, 0, 8>>,
       <<127, 0, 0, 0, 8>>, <<169, 254, 0, 0, 16>>, <<172, 16, 0, 0, 12>>,
       <<192, 0, 0, 0, 24>>, <<192, 0, 2, 0, 24>>, <<192, 88, 99, 0, 24>>,
       <<192, 168, 0, 0, 16>>, <<198, 18, 0, 0, 15>>, <<198, 51, 100, 0, 24>>,
       <<203, 0, 113, 0, 24>>, <<224, 0, 0, 0, 4>>, <<240, 0, 0, 0, 4>> >>

\* safedialer: isIPv4Reserved, over the table given.
isReservedIn(nets, ip) ==
    \E i \in 1..Len(nets) :
        Contains(SubSeq(nets[i], 1, 4), nets[i][5], ip.b)

\* safedialer: isIPv4Reserved.
isIPv4Reserved(ip) == isReservedIn(reservedIPv4Nets, ip)

\* safedialer: isIPv6GlobalUnicast: the address is in 2000::/3.
isIPv6GlobalUnicast(ip) == Contains(<<32, 0>>, 3, ip.b)

\* An isPublicIPAddress over the short table.
isPublicIPAddressShort(ip) ==
    IF To4(ip) THEN ~isReservedIn(reservedIPv4NetsShort, ip) ELSE isIPv6GlobalUnicast(ip)

\* safedialer: isPublicIPAddress.
isPublicIPAddress(ip) ==
    IF To4(ip) THEN ~isIPv4Reserved(ip) ELSE isIPv6GlobalUnicast(ip)

\* A Control that looks at the host before it looks at the port.
ControlHostFirst(network, host, port) ==
    IF network \notin {"tcp4", "tcp6"} THEN "UnsafeNetwork"
    ELSE IF port = "" THEN "InvalidAddress"
    ELSE IF ParseIPNil(host) THEN "InvalidIP"
    ELSE IF port \notin {"80", "443"} THEN "UnsafePort"
    ELSE IF ~isPublicIPAddress(host) THEN "UnsafeIP"
    ELSE "nil"

\* safedialer: Control(network, address, conn).  The address is given by
\* its host and its port; an address without a port ("") is one that
\* net.SplitHostPort cannot split.
Control(network, host, port) ==
    IF network \notin {"tcp4", "tcp6"} THEN "UnsafeNetwork"
    ELSE IF port = "" THEN "InvalidAddress"
    ELSE IF port \notin {"80", "443"} THEN "UnsafePort"
    ELSE IF ParseIPNil(host) THEN "InvalidIP"
    ELSE IF ~isPublicIPAddress(host) THEN "UnsafeIP"
    ELSE "nil"

\* The networks and ports a dial can name; "" is an address without a
\* port.
Networks == {"tcp4", "tcp6", "udp", "unix"}

Ports == {"80", "443", "53", "8080", ""}

\* The ports a URL of the resolver can name.
URLPorts == {"80", "443", "8080"}

\* The network the dialer names for an address.
networkOf(ip) == IF ip.fam = "v6" THEN "tcp6" ELSE "tcp4"

\* Control is called on a network and an address.
CallControl(network, host, port) ==
    /\ dial' = [kind |-> "control", network |-> network, host |-> host,
                port |-> port, err |-> Control(network, host, port),
                connected |-> FALSE]
    /\ UNCHANGED <<pc, input, ctx, joined, flight, inflight, cache, now, out, canon, http, trip, cookies, pool, streams, found, fetched>>

\* The resolver's client dials for the initial request or for a redirect
\* hop: its transport's dialer runs Control on the address the host name
\* resolved to, after the socket is created and before it connects.
DialResolver(kind, ip, port) ==
    LET err == Control(networkOf(ip), ip, port)
    IN  /\ dial' = [kind |-> kind, network |-> networkOf(ip), host |-> ip,
                    port |-> port, err |-> err, connected |-> err = "nil"]
        /\ UNCHANGED <<pc, input, ctx, joined, flight, inflight, cache, now, out, canon, http, trip, cookies, pool, streams, found, fetched>>

\* The tweet fetcher's client dials publish.twitter.com for the oEmbed
\* request: its transport is http.DefaultTransport, whose dialer has no
\* Control, so the connection is made to whatever address the name
\* resolved to.
DialOembed(ip) ==
    /\ dial' = [kind |-> "oembed", network |-> networkOf(ip), host |-> ip,
                port |-> "443", err |-> "nil", connected |-> TRUE]
    /\ UNCHANGED <<pc, input, ctx, joined, flight, inflight, cache, now, out, canon, http, trip, cookies, pool, streams, found, fetched>>

NextDial ==
    \/ \E network \in Networks, host \in Hosts, port \in Ports :
           CallControl(network, host, port)
    \/ \E kind \in {"initial", "redirect"}, ip \in IPs, port \in URLPorts :
           DialResolver(kind, ip, port)
    \/ \E ip \in IPs : DialOembed(ip)

SpecDial == Init /\ [][NextDial]_vars

\* C11 (as stated): with the safe dialer installed, no resolve has
\* established a TCP connection to a non-public IP address or to a port
\* other than 80 or 443, whether for the initial request, a redirect hop
\* or the oEmbed request.
C11_AsStated ==
    (dial.kind \in {"initial", "redirect", "oembed"} /\ dial.connected)
        => (isPublicIPAddress(dial.host) /\ dial.port \in {"80", "443"})

\* C12: Control returns the error of the first failing check, in the order
\* network, address, port, host, IP, with a different error for each, and
\* returns nil exactly when all five checks pass.
C12_ControlOrder ==
    dial.kind = "control" =>
        LET networkOK == dial.network \in {"tcp4", "tcp6"}
            addressOK == dial.port # ""
            portOK    == dial.port \in {"80", "443"}
            hostOK    == dial.host \in IPs
            ipOK      == IF hostOK THEN isPublicIPAddress(dial.host) ELSE FALSE
        IN  /\ ~networkOK => dial.err = "UnsafeNetwork"
            /\ (networkOK /\ ~addressOK) => dial.err = "InvalidAddress"
            /\ (networkOK /\ addressOK /\ ~portOK) => dial.err = "UnsafePort"
            /\ (networkOK /\ addressOK /\ portOK /\ ~hostOK) =>
                   dial.err = "InvalidIP"
            /\ (networkOK /\ addressOK /\ portOK /\ hostOK /\ ~ipOK) =>
                   dial.err = "UnsafeIP"
            /\ (dial.err = "nil") <=>
                   (networkOK /\ addressOK /\ portOK /\ hostOK /\ ipOK)

\* Control was called on an address that fails the port check and the host
\* check, and answered with the error of the port check.
C12_Witness ==
    /\ dial.kind = "control"
    /\ dial.network = "tcp4"
    /\ dial.port = "53"
    /\ dial.host = NotAnIP
    /\ dial.err = "UnsafePort"

\* The reserved IPv4 blocks and the IPv6 global-unicast range, written as
\* ranges of the leading bytes of an address.
inListedBlock(b) ==
    \/ b[1] = 0
    \/ b[1] = 10
    \/ b[1] = 100 /\ b[2] \in 64..127
    \/ b[1] = 127
    \/ b[1] = 169 /\ b[2] = 254
    \/ b[1] = 172 /\ b[2] \in 16..31
    \/ b[1] = 192 /\ b[2] = 0 /\ b[3] = 0
    \/ b[1] = 192 /\ b[2] = 0 /\ b[3] = 2
    \/ b[1] = 192 /\ b[2] = 88 /\ b[3] = 99
    \/ b[1] = 192 /\ b[2] = 168
    \/ b[1] = 198 /\ b[2] \in 18..19
    \/ b[1] = 198 /\ b[2] = 51 /\ b[3] = 100
    \/ b[1] = 203 /\ b[2] = 0 /\ b[3] = 113
    \/ b[1] \in 224..239
    \/ b[1] \in 240..255

publicAsListed(ip) ==
    IF ip.fam \in {"v4", "mapped"} THEN ~inListedBlock(ip.b) ELSE ip.b[1] \in 32..63

\* C13: isPublicIPAddress is true exactly for an IPv4 address (dotted or
\* IPv4-mapped) outside the fifteen reserved blocks and for an IPv6 address
\* inside 2000::/3: a Control call that passes the network, address, port
\* and host checks returns nil exactly for those addresses.
C13_PublicExactly ==
    (/\ dial.kind = "control"
     /\ dial.network \in {"tcp4", "tcp6"}
     /\ dial.port \in {"80", "443"}
     /\ dial.host \in IPs)
        => /\ isPublicIPAddress(dial.host) = publicAsListed(dial.host)
           /\ (dial.err = "nil") = publicAsListed(dial.host)
           /\ (dial.err = "UnsafeIP") = ~publicAsListed(dial.host)

\* Control refused the last address of the carrier-grade NAT block.
C13_Witness ==
    /\ dial.kind = "control"
    /\ dial.network = "tcp4"
    /\ dial.port = "80"
    /\ dial.host = IP4(100, 127, 255, 255)
    /\ dial.err = "UnsafeIP"

\* The path of the i-th URL of the endless chain.
pathOf == <<"0", "1", "2", "3", "4", "5">>

\* The resolve of the endless chain, as far as it has come: at most
\* maxRedirects GETs are answered and none is due after them; once it has
\* ended with every request answered and the body read, there is no error,
\* exactly maxRedirects GETs were answered, the hops are the URLs fetched,
\* in order, and the resolved URL is the canonical form of the last.
capRespected ==
    LET f == flight[1]
    IN  (input[1] = InLoop /\ f.stage # "none") =>
            /\ Len(f.via) <= maxRedirects
            /\ f.stage = "get" => Len(f.via) < maxRedirects
            /\ \A i \in 1..Len(f.via) :
                   f.via[i].path = <<pathOf[i]>>
            /\ (f.stage = "done" /\ f.fault = "") =>
                   /\ f.err = "nil"
                   /\ Len(f.via) = maxRedirects
                   /\ f.result.hops = f.via
                   /\ f.result.url = Canonicalize(f.via[maxRedirects])

\* C14: against an upstream in which every URL redirects to a further one,
\* the resolve terminates: every step of its execution ends it or answers
\* one more GET, and no GET is due once maxRedirects are answered.  If its
\* deadline did not expire and its requests were answered it ends with no
\* error after exactly maxRedirects GETs, resolved_url the canonical form
\* of the last URL fetched and intermediate_urls the maxRedirects URLs
\* fetched, in order.
C14_RedirectCap ==
    /\ []capRespected
    /\ [][(input[1] = InLoop /\ flight[1].stage = "get" /\ flight'[1] # flight[1]) =>
              \/ flight'[1].stage = "done"
              \/ Len(flight'[1].via) = Len(flight[1].via) + 1]_vars

\* The resolve of the endless chain returned without error after five
\* GETs.
C14_Witness ==
    /\ input[1] = InLoop
    /\ pc[1] = "done"
    /\ out[1].err = "nil"
    /\ Len(out[1].result.hops) = maxRedirects
    /\ out[1].result.url = MkURL("http", "loop.example", "", <<"4">>, <<>>)

\* The resolve of an input that redirects to an interstitial issues no
\* request to the interstitial, and once it has ended with its request
\* answered and the body read, there is no error, the resolved URL is the
\* canonical form of the URL that answered with the redirect and that URL
\* is the last hop.
interstitialNotFollowed ==
    LET f == flight[1]
    IN  (input[1] \in {InInsta, InForbes} /\ f.stage # "none") =>
            /\ ~isInstagramLogin(f.cur) /\ ~isForbesWelcome(f.cur)
            /\ \A i \in 1..Len(f.via) :
                   ~isInstagramLogin(f.via[i]) /\ ~isForbesWelcome(f.via[i])
            /\ (f.stage = "done" /\ f.fault = "") =>
                   /\ f.err = "nil"
                   /\ Len(f.via) = 1
                   /\ f.result.url = Canonicalize(f.via[1])
                   /\ f.result.hops = <<f.via[1]>>

\* C15 (as stated): when a response redirects to an Instagram login or a
\* Forbes welcome URL, no request is issued to that target and the resolve
\* returns without error with resolved_url the canonical form of the URL
\* that answered with the redirect, that URL as the last of
\* intermediate_urls, and an empty title.
C15_AsStated ==
    /\ interstitialNotFollowed
    /\ (/\ input[1] \in {InInsta, InForbes}
        /\ flight[1].stage = "done"
        /\ flight[1].fault = "")
           => flight[1].result.title = ""

\* The chain of URLs the upstream leads through from u: u, the Location it
\* answers u with, and so on up to the first URL that is a page, over at
\* most k redirects.
RECURSIVE chainFrom(_, _)
chainFrom(u, k) ==
    IF k = 0 \/ upstream(u).kind # "redirect"
    THEN <<u>>
    ELSE <<u>> \o chainFrom(upstream(u).loc, k - 1)

\* The inputs whose chains are shorter than the cap and lead to no
\* interstitial.
ShortChains == {InPlainTracked, InChain, InHops, InTco}

\* The chain u0 -> ... -> un of the call's input, u0 being the URL the
\* first request is made to.
chainOfInput == chainFrom(Canonicalize(input[1]), maxRedirects)

\* The resolve of a short chain ended with every request answered.
chainAnswered ==
    /\ input[1] \in ShortChains
    /\ flight[1].stage = "done"
    /\ flight[1].cause # "request"

\* C16: for a redirect chain u0 -> ... -> un with n < maxRedirects, no
\* vetoed target and every request answered, intermediate_urls is exactly
\* [u0, ..., u(n-1)] in visiting order and empty when n = 0, and
\* resolved_url is the canonical form of un unless that form matches the
\* tweet pattern.
C16_HopsInOrder ==
    chainAnswered =>
        LET chain == chainOfInput
            n     == Len(chain) - 1
            r     == flight[1].result
        IN  /\ n < maxRedirects
            /\ r.hops = SubSeq(chain, 1, n)
            /\ n = 0 => r.hops = <<>>
            /\ ~matchTweetURL(Canonicalize(chain[n + 1])).ok =>
                   r.url = Canonicalize(chain[n + 1])

\* The resolve of the chain of two redirects returned its two hops.
C16_Witness ==
    /\ input[1] = InHops
    /\ pc[1] = "done"
    /\ out[1].err = "nil"
    /\ out[1].result.hops = <<Canonicalize(InHops), LocY>>
    /\ out[1].result.url = LocZ

\* C16 (as stated): for a redirect chain u0 -> ... -> un with
\* n < maxRedirects and no vetoed target, intermediate_urls is exactly
\* [u0, ..., u(n-1)] in visiting order, resolved_url is the canonical form
\* of un, and intermediate_urls is empty when n = 0.
C16_AsStated ==
    (chainAnswered /\ flight[1].err = "nil") =>
        LET chain == chainOfInput
            n     == Len(chain) - 1
            r     == flight[1].result
        IN  /\ r.hops = SubSeq(chain, 1, n)
            /\ n = 0 => r.hops = <<>>
            /\ r.url = Canonicalize(chain[n + 1])

\* The first hop recorded is in canonical form: it is the URL of the first
\* request, made to the canonicalized input.
firstHopCanonical ==
    \A c \in Calls :
        Len(flight[c].result.hops) >= 1 =>
            flight[c].result.hops[1] = Canonicalize(flight[c].result.hops[1])

\* C17 (as stated): every element of intermediate_urls is in canonical
\* form (tracking parameters removed, query keys sorted), for every hop of
\* the chain and not only the first, whatever raw URL the upstream put in
\* its Location header.
C17_AsStated ==
    \A c \in Calls :
        \A i \in 1..Len(flight[c].result.hops) :
            flight[c].result.hops[i] = Canonicalize(flight[c].result.hops[i])

\* The inputs that match the tweet pattern, and for each the prefix the
\* pattern matches in its canonical form, /i/web/ rewritten.
TweetInputs == {InTweet, InWebTweet}

trimmedTweet ==
    IF input[1] = InTweet
    THEN MkURL("https", "twitter.com", "", <<"mccutchen", "status", "1234">>, <<>>)
    ELSE MkURL("https", "twitter.com", "", <<"__urlresolver__", "status", "1234">>, <<>>)

\* The tweet the oEmbed endpoint reports.
reportedTweet ==
    [url  |-> MkURL("https", "twitter.com", "", <<"McCutchen", "status", "1234">>, <<>>),
     text |-> "tweet text"]

\* C18: when the canonicalized input matches the tweet pattern, no GET is
\* issued to the input URL: the resolve goes straight to one Fetch on the
\* matched prefix (media path and query dropped, /i/web/ rewritten to
\* /__urlresolver__/), and on success the result is tweet.url and
\* tweet.text with no intermediate URLs.
C18_TweetShortCircuit ==
    LET f == flight[1]
    IN  (input[1] \in TweetInputs /\ f.stage # "none") =>
            /\ f.stage \in {"tweet", "done"}
            /\ f.via = <<>>
            /\ f.cur = EmptyURL
            /\ f.tweetURL = trimmedTweet
            /\ (f.stage = "done" /\ f.err = "nil") =>
                   f.result = [url |-> reportedTweet.url,
                               title |-> reportedTweet.text,
                               hops |-> <<>>]

\* The resolve of a tweet in its /i/web/ form returned the tweet.
C18_Witness ==
    /\ input[1] = InWebTweet
    /\ pc[1] = "done"
    /\ flight[1].tweetURL.path = <<"__urlresolver__", "status", "1234">>
    /\ out[1].err = "nil"
    /\ out[1].result.url = reportedTweet.url
    /\ out[1].result.title = "tweet text"
    /\ out[1].result.hops = <<>>

\* C19: when the canonical URL reached after following redirects matches
\* the tweet pattern, the resolve delegates to the tweet fetcher instead of
\* extracting a title from the body it fetched, and the result keeps the
\* intermediate URLs recorded during the redirects while its resolved URL
\* and title are the tweet's.
C19_TweetAfterRedirect ==
    LET f == flight[1]
    IN  (input[1] = InTco /\ f.stage # "none") =>
            /\ f.stage # "body"
            /\ (f.stage = "tweet" \/ (f.stage = "done" /\ f.cause # "request")) =>
                   /\ f.via = <<InTco, LocTweet>>
                   /\ f.tweetURL =
                          MkURL("https", "twitter.com", "",
                                <<"mccutchen", "status", "1234">>, <<>>)
                   /\ f.result.hops = <<InTco>>
                   /\ f.result.title \notin Titles
            /\ (f.stage = "done" /\ f.err = "nil") =>
                   f.result = [url |-> reportedTweet.url,
                               title |-> reportedTweet.text,
                               hops |-> <<InTco>>]

\* The resolve of a short link to a tweet returned the tweet and the hop.
C19_Witness ==
    /\ input[1] = InTco
    /\ pc[1] = "done"
    /\ out[1].err = "nil"
    /\ out[1].result.hops = <<InTco>>
    /\ out[1].result.url = reportedTweet.url
    /\ out[1].result.title = "tweet text"

\* The errors a tweet fetch can end with.
FetchErrors ==
    {"Canceled", "DeadlineExceeded", "TransportError", "TwitterStatus",
     "TwitterJSON", "TwitterFormat"}

\* C20: if the tweet fetch fails, for whatever reason, the resolve still
\* returns a result whose resolved URL is the trimmed tweet URL, whose
\* title is empty and whose recorded intermediate URLs are kept, together
\* with the error of the fetch.
C20_TweetFetchFails ==
    /\ [][\A c \in Calls :
              (flight[c].stage = "tweet" /\ flight'[c].stage = "done"
                   /\ flight'[c].err # "nil") =>
                  /\ flight'[c].err \in FetchErrors
                  /\ flight'[c].result =
                         [url   |-> flight[c].tweetURL,
                          title |-> "",
                          hops  |-> flight[c].result.hops]
                  /\ flight'[c].result.hops = SubSeq(flight[c].via, 1, Len(flight[c].via) - 1)]_vars
    /\ [](\A c \in Calls :
              (pc[c] = "done" /\ ~out[c].hit /\ flight[c].cause = "tweet") =>
                  /\ out[c].err = flight[c].err
                  /\ out[c].err # "nil"
                  /\ out[c].result = flight[c].result)

\* The fetch of a tweet reached through a short link failed for missing
\* fields, and the resolve returned the trimmed tweet URL, the hop and the
\* error.
C20_Witness ==
    /\ input[1] = InTco
    /\ pc[1] = "done"
    /\ out[1].err = "TwitterFormat"
    /\ out[1].result =
           [url   |-> MkURL("https", "twitter.com", "",
                            <<"mccutchen", "status", "1234">>, <<>>),
            title |-> "",
            hops  |-> <<InTco>>]

\* The first URL the execution of call 1 requests, or is about to.
firstRequest ==
    IF flight[1].via # <<>> THEN flight[1].via[1]
    ELSE IF flight[1].cause = "request" THEN flight[1].failed
    ELSE flight[1].cur

\* The resolve of a click URL whose group is in the class the pattern of
\* the code captures and decodes to an absolute URL: the first request goes
\* to the decoded URL, the click URL is the first hop, and the resolved URL
\* is the canonical form of the last URL fetched.
plainUnwrapped ==
    (input[1] = Wrapped(GroupPlain) /\ flight[1].stage # "none") =>
        /\ firstRequest = TargetPlain
        /\ flight[1].result.hops # <<>>
        /\ flight[1].result.hops[1] = Wrapped(GroupPlain)
        /\ flight[1].cause = "" /\ flight[1].stage = "done" =>
               flight[1].result.url = Canonicalize(TargetPlain)

\* The resolve of a click URL whose group does not decode, or decodes to
\* what does not parse: the input is left unchanged.
undecodedUnchanged ==
    (/\ input[1] \in {Wrapped(GroupPct), Wrapped(GroupPadded), Wrapped(GroupShort)}
     /\ flight[1].stage # "none")
        => /\ firstRequest = input[1]
           /\ flight[1].result.hops = <<>>

\* C21 (as stated): for a click URL whose group decodes (URL-safe, no
\* padding) to a parseable absolute URL, the first GET goes to the decoded
\* URL and not to the wrapper host, the wrapper URL is the first of
\* intermediate_urls and the resolved URL is the canonical form of the
\* final URL; when decoding fails or does not yield a parseable absolute
\* URL the input is left unchanged.
C21_AsStated ==
    flight[1].stage # "none" =>
        /\ input[1] = Wrapped(GroupPlain) =>
               /\ firstRequest = TargetPlain
               /\ flight[1].result.hops # <<>>
               /\ flight[1].result.hops[1] = input[1]
        /\ input[1] = Wrapped(GroupDash) =>
               /\ firstRequest = TargetDash
               /\ flight[1].result.hops # <<>>
               /\ flight[1].result.hops[1] = input[1]
        /\ input[1] \in {Wrapped(GroupRel), Wrapped(GroupPct), Wrapped(GroupPadded),
                         Wrapped(GroupShort)} =>
               /\ firstRequest = input[1]
               /\ flight[1].result.hops = <<>>

\* ------------------------------------------------------------- canonicalizer

\* The URLs Canonicalize is called on: hosts on and off the lists of the
\* canonicalizer, in either case, with and without a port, paths with
\* upper-case letters, with and without a fragment, and every query of at
\* most MaxParams parameters over the keys and values below, with three
\* longer ones.
CanonHosts ==
    { "example.com", "Example.COM", "twitter.com", "Twitter.COM", "mobile.twitter.com",
      "www.instagram.com", "www.youtube.com", "www.buzzfeed.com", "mybuzzfeed.com" }

CanonPorts == {"", "443", "8080"}

CanonPaths == { <<"McCutchen">>, <<"foo">> }

CanonKeys == {"a", "q", "v", "utm_source", "zzz", "AAA"}

\* Every key with the value "1", and the key "a" with a second value.
Params == { <<k, "1">> : k \in CanonKeys } \cup { <<"a", "2">> }

MaxParams == 2

CanonQueries ==
    UNION { [1..n -> Params] : n \in 0..MaxParams }
        \cup { << <<"zzz", "1">>, <<"a", "2">>, <<"q", "1">>, <<"a", "1">> >>,
               << <<"a", "1">>, <<"a", "2">>, <<"a", "1">> >>,
               << <<"v", "2">>, <<"utm_source", "1">>, <<"v", "1">>, <<"AAA", "1">> >>,
               << <<"UTM_Source", "1">>, <<"q", "1">> >> }

CanonURLs ==
    { [scheme |-> s, host |-> h, port |-> p, path |-> path, query |-> q, frag |-> fr] :
          s \in {"http", "https"}, h \in CanonHosts, p \in CanonPorts,
          path \in CanonPaths, q \in CanonQueries, fr \in {"", "top"} }

\* The URL value of the caller when Canonicalize returns: clean assigns its
\* RawQuery and Fragment, normalize its Path, NormalizeURL its other
\* fields, all through the pointer Canonicalize was given.
canonicalizeArg(u) == normalize(clean(u))

\* A caller parses a URL and calls Canonicalize on it, then parses the
\* result and calls Canonicalize again.  A behaviour holds one such call.
CallCanonicalize(u) ==
    /\ ~canon.called
    /\ canon' = [called |-> TRUE, given |-> u, arg |-> canonicalizeArg(u),
                 once |-> Canonicalize(u),
                 twice |-> Canonicalize(Canonicalize(u))]
    /\ UNCHANGED <<pc, input, ctx, joined, flight, inflight, cache, now, out, dial, http, trip, cookies, pool, streams, found, fetched>>

NextCanon == \E u \in CanonURLs : CallCanonicalize(u)

SpecCanon == Init /\ [][NextCanon]_vars

\* The authority of the URL matches a pattern (^|\.)(d1|d2|...)$ whatever
\* its port and the case of its letters.
onList(u, domains) == domainOf(ToLower(u.host)) \in domains

\* Canonicalize is idempotent on the URLs whose authority carries no port
\* and on those whose host is not one whose path is lower-cased.
idempotentWithoutPort ==
    (canon.called /\ (canon.given.port = "" \/ ~onList(canon.given, lowercaseDomains)))
        => canon.twice = canon.once

\* C22 (as stated): canonicalization is idempotent: for every URL that
\* parses, whatever the case of its host, with or without a port, query and
\* fragment, canonicalizing the canonical form again yields the same.
C22_AsStated ==
    canon.called => canon.twice = canon.once

\* The values of key k in query q, in their order.
valuesOf(q, k) ==
    LET kvs == SelectSeq(q, LAMBDA kv : kv[1] = k)
    IN  [i \in 1..Len(kvs) |-> kvs[i][2]]

sortedByKey(q) ==
    \A i, j \in 1..Len(q) : i < j => keyRank(q[i][1]) <= keyRank(q[j][1])

\* C23: in the output of Canonicalize the query parameters are in
\* lexicographic order of their keys, and the values of a key that is kept
\* are those of the input, in the order of the input.
C23_SortedStable ==
    canon.called =>
        /\ sortedByKey(canon.once.query)
        /\ \A k \in CanonKeys :
               valuesOf(canon.once.query, k) \in { <<>>, valuesOf(canon.given.query, k) }

\* An unsorted query with two values of one key, the larger value first.
C23_Witness ==
    /\ canon.called
    /\ canon.given.host = "example.com"
    /\ canon.given.query = << <<"zzz", "1">>, <<"a", "2">>, <<"q", "1">>, <<"a", "1">> >>
    /\ canon.once.query = << <<"a", "2">>, <<"a", "1">>, <<"q", "1">>, <<"zzz", "1">> >>

\* The keys of a query.
keysOf(q) == { q[i][1] : i \in 1..Len(q) }

\* The parameter names the deny pattern matches, among those of the model.
deniedKeys == {"utm_source", "UTM_Source"}

\* The pairs of a host of CanonHosts and a listed domain it is, in some
\* letter case, or is a subdomain of.
isOrIsUnder ==
    { <<"twitter.com", "twitter.com">>, <<"Twitter.COM", "twitter.com">>,
      <<"mobile.twitter.com", "twitter.com">>, <<"www.instagram.com", "instagram.com">>,
      <<"www.youtube.com", "youtube.com">>, <<"www.buzzfeed.com", "buzzfeed.com">> }

hostOn(u, domains) == \E d \in domains : <<u.host, d>> \in isOrIsUnder

\* The parameter names the allow-list keeps on the host of u.
allowedKeys(u) ==
    IF hostOn(u, {"youtube.com"}) THEN {"v", "p", "t", "list"} ELSE {"q"}

removalExpected(u, k) ==
    \/ k \in deniedKeys
    \/ hostOn(u, allowlistDomains) /\ k \notin allowedKeys(u)
    \/ ~hostOn(u, allowlistDomains) /\ hostOn(u, stripParamDomains)

\* C24: Canonicalize removes a parameter exactly when the deny pattern
\* matches it, or the host is allow-listed and the parameter is not one the
\* domain allows, or the host is not allow-listed and is on the strip-all
\* list; a host matches a listed domain when it is the domain or a
\* subdomain of it.
C24_RemovedExactly ==
    canon.called =>
        /\ \A k \in keysOf(canon.given.query) :
               (k \notin keysOf(canon.once.query)) <=> removalExpected(canon.given, k)
        /\ keysOf(canon.once.query) \subseteq keysOf(canon.given.query)

\* A subdomain of twitter.com, which is on both lists: q is kept, a is not.
C24_Witness ==
    /\ canon.called
    /\ canon.given.host = "mobile.twitter.com"
    /\ canon.given.query = << <<"a", "1">>, <<"q", "1">> >>
    /\ canon.once.query = << <<"q", "1">> >>

noUpperCase(path) == \A i \in 1..Len(path) : ToLower(path[i]) = path[i]

\* On the hosts of the lower-case list without a port in the authority the
\* output path has no upper-case letter; on the hosts outside the list the
\* path is that of the input.
lowercasedWithoutPort ==
    canon.called =>
        IF hostOn(canon.given, lowercaseDomains)
        THEN canon.given.port = "" => noUpperCase(canon.once.path)
        ELSE canon.once.path = canon.given.path

\* C25 (as stated): for a host that is instagram.com, twitter.com or a
\* subdomain of either, in any letter case and with any port, the path of
\* the output of Canonicalize has no upper-case letter; for any other host
\* the path keeps its case.
C25_AsStated ==
    canon.called =>
        IF hostOn(canon.given, lowercaseDomains)
        THEN noUpperCase(canon.once.path)
        ELSE canon.once.path = canon.given.path

\* C26 (as stated): Canonicalize does not modify the URL it is given: the
\* caller's URL has the same path, query and fragment after the call.
C26_AsStated ==
    canon.called =>
        /\ canon.arg.path = canon.given.path
        /\ canon.arg.query = canon.given.query
        /\ canon.arg.frag = canon.given.frag

\* ------------------------------------------------------------ httphandler

Methods == {"GET", "HEAD", "POST", "PUT", "DELETE", "OPTIONS"}

\* /lookup?foo, /lookup?url=, /lookup?url=%25%25, /lookup?url=path/to/foo
\* and /lookup?url=https:///path/to/foo.
ArgAbsent == NoArg

ArgEmpty == [NoArg EXCEPT !.present = TRUE]

ArgPct == [NoArg EXCEPT !.present = TRUE, !.bad = "%%"]

ArgRelative ==
    [NoArg EXCEPT !.present = TRUE, !.url = MkURL("", "", "", <<"path", "to", "foo">>, <<>>)]

ArgNoHost ==
    [NoArg EXCEPT !.present = TRUE,
                  !.url = MkURL("https", "", "", <<"path", "to", "foo">>, <<>>)]

ArgOf(u) == [NoArg EXCEPT !.present = TRUE, !.url = u]

ValidArgs == {ArgOf(InPlainTracked), ArgOf(InTweet)}

Args == {ArgAbsent, ArgEmpty, ArgPct, ArgRelative, ArgNoHost} \cup ValidArgs

\* r.URL.Query().Get("url") == "".
givenEmpty(arg) == ~arg.present \/ (arg.bad = "" /\ arg.url = EmptyURL)

\* An isValidInput without the test of the hostname.
isValidInputAbs(arg) ==
    /\ arg.bad = ""
    /\ arg.url.scheme # ""

\* httphandler.go: isValidInput; url.Parse returns no error, the URL is
\* absolute (it has a scheme) and its hostname is not empty.
isValidInput(arg) ==
    /\ arg.bad = ""
    /\ arg.url.scheme # ""
    /\ arg.url.host # ""

\* A cacheControlValue that gives one max-age to every response.
cacheControlValueErr(code) == "public,max-age=300"

\* httphandler.go: cacheControlValue, with maxAgeOK 365 days and maxAgeErr
\* 5 minutes in seconds.
cacheControlValue(code) ==
    IF code = 200 THEN "public,max-age=31536000" ELSE "public,max-age=300"

\* httphandler.go: sendJSON.
sendJSON(code, data) ==
    [code |-> code, cacheControl |-> cacheControlValue(code),
     contentType |-> "application/json", body |-> data]

\* httphandler.go: sendError.
sendError(msg, code) ==
    sendJSON(code, [NoBody EXCEPT !.kind = "error", !.error = msg])

\* errors.Is(err, target): target is err or one of the errors it wraps.
Is(errv, target) == \E i \in 1..Len(errv) : errv[i] = target

\* The Timeout method of an error value: *url.Error and *net.OpError ask
\* the error they wrap, the deadline and i/o timeout errors answer true,
\* an error without the method counts as false.
RECURSIVE Timeout(_)
Timeout(errv) ==
    IF errv = <<>> THEN FALSE
    ELSE IF Head(errv) \in {"url.Error", "net.OpError"} THEN Timeout(Tail(errv))
    ELSE Head(errv) \in {"context.DeadlineExceeded", "i/o timeout"}

\* httphandler.go: isTimeoutError; errors.Unwrap(err) is the rest of the
\* chain.
RECURSIVE isTimeoutError(_)
isTimeoutError(errv) ==
    IF errv = <<>> THEN FALSE
    ELSE \/ Is(errv, "context.DeadlineExceeded")
         \/ Timeout(errv)
         \/ isTimeoutError(Tail(errv))

\* httphandler.go: isUnsafeError.
isUnsafeError(errv) ==
    \/ Is(errv, "ErrUnsafeIP")
    \/ Is(errv, "ErrUnsafePort")
    \/ Is(errv, "ErrUnsafeNetwork")

\* httphandler.go: mapError, by the text of the error it returns.
mapError(errv) ==
    IF isTimeoutError(errv) THEN "request timeout"
    ELSE IF isUnsafeError(errv) THEN "unsafe URL"
    ELSE "resolve error"

\* safedialer: the errors Control returns.
SafeDialerErrors ==
    {"ErrUnsafeNetwork", "ErrInvalidAddress", "ErrUnsafePort", "ErrInvalidIP", "ErrUnsafeIP"}

\* The error values Resolve returns for each error of the resolver: what
\* httpClient.Do returns is a *url.Error, a failed dial a *net.OpError
\* around the error of Control or of the connect.
errorValues(err) ==
    CASE err = "nil" -> { <<>> }
      [] err = "Canceled" -> { <<"url.Error", "context.Canceled">> }
      [] err = "DeadlineExceeded" ->
             { <<"url.Error", "context.DeadlineExceeded">>,
               <<"url.Error", "net.OpError", "i/o timeout">>,
               <<"context.DeadlineExceeded">> }
      [] err = "TransportError" ->
             { <<"url.Error", "net.OpError", e>> : e \in SafeDialerErrors }
                 \cup { <<"url.Error", "net.OpError", "connection refused">>,
                        <<"url.Error", "EOF">> }
      [] OTHER -> { <<err>> }

\* ServeHTTP from its entry to the call of resolver.Resolve: the two
\* checks of the url argument.  The method of the request is not looked at.
ServeHTTP(method, arg) ==
    /\ http.phase = "none"
    /\ LET req == [NoExchange EXCEPT !.method = method, !.arg = arg]
           bad(msg) == LET r == sendError(msg, 400)
                       IN  [req EXCEPT !.phase = "done", !.code = r.code,
                                       !.cacheControl = r.cacheControl,
                                       !.contentType = r.contentType,
                                       !.body = r.body]
       IN  http' = IF givenEmpty(arg) THEN bad("Missing arg url")
                   ELSE IF ~isValidInput(arg) THEN bad("Invalid url")
                   ELSE [req EXCEPT !.phase = "resolving"]
    /\ UNCHANGED <<pc, input, ctx, joined, flight, inflight, cache, now, out, dial, canon, trip, cookies, pool, streams, found, fetched>>

\* ServeHTTP calls h.resolver.Resolve(ctx, givenURL).
HandlerResolve ==
    /\ http.phase = "resolving"
    /\ CachedGet(1, http.arg.url)

\* ServeHTTP from the return of Resolve: the response written for the
\* result and the error value.
writeResponse(h, result, errv) ==
    LET resp == [NoBody EXCEPT !.kind = "result", !.given_url = h.arg.url,
                               !.resolved_url = result.url, !.title = result.title]
        sent(r) == [h EXCEPT !.phase = "done", !.errv = errv, !.code = r.code,
                             !.cacheControl = r.cacheControl,
                             !.contentType = r.contentType, !.body = r.body]
    IN  IF errv = <<>> THEN sent(sendJSON(200, resp))
        ELSE IF Is(errv, "context.Canceled")
             THEN [h EXCEPT !.phase = "done", !.errv = errv, !.code = 499]
             ELSE sent(sendJSON(203, [resp EXCEPT !.error = mapError(errv)]))

HandlerRespond ==
    /\ http.phase = "resolving"
    /\ pc[1] = "done"
    /\ \E errv \in errorValues(out[1].err) :
           http' = writeResponse(http, out[1].result, errv)
    /\ UNCHANGED <<pc, input, ctx, joined, flight, inflight, cache, now, out, dial, canon, trip, cookies, pool, streams, found, fetched>>

\* One request to the handler, and the resolve it starts.
NextHTTP ==
    \/ \E method \in Methods, arg \in Args : ServeHTTP(method, arg)
    \/ HandlerResolve
    \/ Resolve(1)
    \/ DoGet(1)
    \/ ReadBody(1)
    \/ FetchTweet(1)
    \/ Return(1)
    \/ \E kind \in {"canceled", "expired"} : Cancel(1, kind)
    \/ HandlerRespond

SpecHTTP == Init /\ [][NextHTTP]_vars

\* The request has been answered after a call of the resolver.
answeredLookup == http.phase = "done" /\ pc[1] = "done"

resolverNotInvoked ==
    /\ pc[1] = "idle"
    /\ input[1] = EmptyURL
    /\ flight[1] = NoFlight
    /\ inflight = {}
    /\ cache = {}

refused(msg) ==
    /\ http.phase = "done"
    /\ http.code = 400
    /\ http.body.kind = "error"
    /\ http.body.error = msg
    /\ resolverNotInvoked

\* C28: a request without a url argument is answered 400 "Missing arg
\* url", one whose url does not parse, is relative or has no hostname is
\* answered 400 "Invalid url", and in neither case is the resolver called.
C28_BadArgRefused ==
    /\ (http.phase # "none" /\ http.arg \in {ArgAbsent, ArgEmpty})
           => refused("Missing arg url")
    /\ (http.phase # "none" /\ http.arg \in {ArgPct, ArgRelative, ArgNoHost})
           => refused("Invalid url")

\* The request whose url is https:///path/to/foo has been refused.
C28_Witness ==
    /\ http.arg = ArgNoHost
    /\ refused("Invalid url")

\* C29 (as stated): a request with a method other than GET or HEAD is
\* answered 405 and the resolver is not called, whatever the query string.
C29_AsStated ==
    (http.phase # "none" /\ http.method \notin {"GET", "HEAD"})
        => /\ http.phase = "done"
           /\ http.code = 405
           /\ resolverNotInvoked

\* The error value is or wraps a deadline or timeout error.
wrapsTimeout(errv) ==
    \E i \in 1..Len(errv) : errv[i] \in {"context.DeadlineExceeded", "i/o timeout"}

wraps(errv, kinds) == \E i \in 1..Len(errv) : errv[i] \in kinds

errorFieldFor(errv, unsafeKinds) ==
    IF wrapsTimeout(errv) THEN "request timeout"
    ELSE IF wraps(errv, unsafeKinds) THEN "unsafe URL"
    ELSE "resolve error"

\* The error field of a partial response is "unsafe URL" for the errors
\* ErrUnsafeIP, ErrUnsafePort and ErrUnsafeNetwork, "request timeout" for
\* deadline and timeout errors and "resolve error" for the others.
errorFieldThreeKinds ==
    (http.phase = "done" /\ http.code = 203) =>
        http.body.error =
            errorFieldFor(http.errv, {"ErrUnsafeIP", "ErrUnsafePort", "ErrUnsafeNetwork"})

\* C30 (as stated): the error field of a partial response is "request
\* timeout" when the error is or wraps a deadline or timeout error,
\* "unsafe URL" when it is or wraps one of the five errors of the safe
\* dialer, and "resolve error" otherwise.
C30_AsStated ==
    (http.phase = "done" /\ http.code = 203) =>
        http.body.error = errorFieldFor(http.errv, SafeDialerErrors)

\* ------------------------------------------------------------ fakebrowser

\* fakebrowser: DefaultHeaders, the values by short tokens.
DefaultHeaders ==
    [n \in {"Accept", "Accept-Language", "Referer", "User-Agent"} |->
        CASE n = "Accept"          -> "text/html,*/*"
          [] n = "Accept-Language" -> "en-US,en"
          [] n = "Referer"         -> "https://duckduckgo.com/"
          [] n = "User-Agent"      -> "Mozilla/5.0"]

\* The header names of the requests of the model: the defaults and one
\* header outside them.
HeaderNames == DOMAIN DefaultHeaders \cup {"X-1"}

\* What a request carries under a name: nothing, an empty value (the way
\* to have net/http send no User-Agent), or a value.
HeaderValues == { <<>>, <<"">>, <<"in request">> }

RequestHeaders == [HeaderNames -> HeaderValues]

\* http.Header.Get: the first value under the name, "" if there is none.
HeaderGet(h, key) == IF h[key] = <<>> THEN "" ELSE h[key][1]

\* http.Header.Set: the value replaces those under the name.
HeaderSet(h, key, value) == [h EXCEPT ![key] = <<value>>]

\* fakebrowser: Transport.RoundTrip, the header of the request it hands to
\* the wrapped transport.
injectHeaders(h) ==
    [n \in HeaderNames |->
        IF n \in DOMAIN DefaultHeaders /\ HeaderGet(h, n) = ""
        THEN HeaderSet(h, n, DefaultHeaders[n])[n]
        ELSE h[n]]

\* A request with header h goes through the transport.
RoundTrip(h) ==
    /\ ~trip.called
    /\ trip' = [called |-> TRUE, given |-> h, sent |-> injectHeaders(h)]
    /\ UNCHANGED <<pc, input, ctx, joined, flight, inflight, cache, now, out, dial, canon, http, cookies, pool, streams, found, fetched>>

NextBrowser == \E h \in RequestHeaders : RoundTrip(h)

SpecBrowser == Init /\ [][NextBrowser]_vars

\* A default header the request carries with a non-empty value keeps its
\* values, one that is absent or whose first value is empty gets the
\* default, and the other headers are as given.
injectedUnlessNonEmpty ==
    trip.called =>
        \A n \in HeaderNames :
            IF n \in DOMAIN DefaultHeaders /\ trip.given[n] \in { <<>>, <<"">> }
            THEN trip.sent[n] = <<DefaultHeaders[n]>>
            ELSE trip.sent[n] = trip.given[n]

\* C31 (as stated): RoundTrip sets a default header exactly when the
\* request does not carry it: a header that is present keeps its value, an
\* absent one gets the default, and non-default headers are unchanged.
C31_AsStated ==
    trip.called =>
        \A n \in HeaderNames :
            IF n \in DOMAIN DefaultHeaders /\ trip.given[n] = <<>>
            THEN trip.sent[n] = <<DefaultHeaders[n]>>
            ELSE trip.sent[n] = trip.given[n]

\* ------------------------------------------------------------ cookies

\* Number of resolves that run on the cookie-setting host.
NCookieCalls == 2

\* Resolves of the URLs of the cookie-setting host, one after the other
\* or at the same time.
NextCookies ==
    \/ \E c \in 1..NCookieCalls, u \in CookieInputs : CachedGet(c, u)
    \/ \E c \in 1..NCookieCalls : Resolve(c)
    \/ \E l \in 1..NCookieCalls : DoGet(l)
    \/ \E l \in 1..NCookieCalls : ReadBody(l)
    \/ \E c \in 1..NCookieCalls : Return(c)
    \/ Tick

SpecCookies == Init /\ [][NextCookies]_vars

\* The request of the resolve led by l to u carried the cookie that an
\* answer to the same resolve had set.
carriedOwn(l, u) ==
    \E s \in cookies.sent :
        s.by = l /\ s.url = u /\ s.cookie.by = l /\ s.cookie.name = "foo"

\* The resolve led by l has sent a request to u: the request was answered,
\* or it failed on the way.
wasSent(l, u) ==
    \/ \E i \in 1..Len(flight[l].via) : flight[l].via[i] = u
    \/ flight[l].failed = u /\ flight[l].fault \in {"timeout", "neterr"}

\* C32: a cookie a response sets during a resolve is sent on the later
\* requests of that resolve to the host that set it, and no request carries
\* a cookie set during another resolve or by another host.
C32_CookiesScoped ==
    /\ \A s \in cookies.sent :
           /\ s.cookie.by = s.by
           /\ s.cookie.host = ToLower(s.url.host)
    /\ \A l \in Calls :
           (flight[l].key = InCookieA /\ wasSent(l, InCookieB))
               => carriedOwn(l, InCookieB)

\* Two resolves have both received the cookie and sent it on their own
\* second request.
C32_Witness ==
    /\ carriedOwn(1, InCookieB)
    /\ carriedOwn(2, InCookieB)
    /\ flight[1].stage = "done"
    /\ flight[2].stage = "done"

\* ------------------------------------------------------------ coalescing

\* Call c has returned from a resolve that another call had started.
joinedAndDone(c) == pc[c] = "done" /\ joined[c] \notin {0, c}

\* A caller that joined a resolve in flight gets the result and the error
\* of the caller that started it.
joinedSeeSameResult ==
    \A c \in Calls :
        (joinedAndDone(c) /\ pc[joined[c]] = "done") =>
            /\ out[c].result = out[joined[c]].result
            /\ out[c].err = out[joined[c]].err

\* C33 (as stated): a caller whose Resolve joined a resolve in flight for
\* the same key gets a result with coalesced = true, and apart from that
\* flag the result of the first caller.
C33_AsStated ==
    \A c \in Calls :
        joinedAndDone(c) =>
            /\ out[c].coalesced
            /\ out[c].result = flight[joined[c]].result

\* ------------------------------------------------------------- unparseable input

\* Inputs that url.Parse rejects for an invalid escape in the path: a page
\* address, and the address of a tweet followed by such a path element.
InBad == MkURL("http", "example.com", "", <<"%%">>, <<>>)

InBadTweet ==
    MkURL("https", "twitter.com", "", <<"McCutchen", "status", "1234", "%%">>, <<>>)

BadInputs == {InBad, InBadTweet}

NBadCalls == 2

\* Resolves of inputs that do not parse, one after the other or at once.
NextBad ==
    \/ \E c \in 1..NBadCalls, u \in BadInputs : CachedGet(c, u)
    \/ \E c \in 1..NBadCalls : Resolve(c)
    \/ \E l \in 1..NBadCalls : FetchTweet(l)
    \/ \E c \in 1..NBadCalls : Return(c)
    \/ \E c \in 1..NBadCalls, kind \in {"canceled", "expired"} : Cancel(c, kind)
    \/ Tick

SpecBad == Init /\ [][NextBad]_vars

\* The execution led by l sent a request upstream: a GET that was answered
\* or failed, or the fetch of a tweet.
sentUpstream(l) ==
    \/ flight[l].via # <<>>
    \/ flight[l].cause \in {"request", "body", "tweet"}
    \/ flight[l].tweetURL # EmptyURL

\* The result the claim describes for the input: the raw input, no title,
\* no intermediate URLs.
rawResult(givenURL) == [NoResult EXCEPT !.url = givenURL]

\* An input that does not parse and does not begin like the address of a
\* tweet is answered with the error of the request's construction and the
\* raw input, and nothing is sent upstream.
unparseableNoTweetRefused ==
    \A l \in Calls :
        (flight[l].stage = "done" /\ ~parses(flight[l].key)
         /\ ~matchTweetURL(flight[l].key).ok) =>
            /\ ~sentUpstream(l)
            /\ flight[l].err = "InvalidURLEscape"
            /\ flight[l].result = rawResult(flight[l].key)

\* C34: when the input given to Resolve does not parse as a URL, Resolve
\* sends no request upstream and returns an error together with a result
\* whose resolved URL is the raw input and whose title and intermediate
\* URLs are empty.
C34_AsStated ==
    \A l \in Calls :
        (flight[l].stage = "done" /\ ~parses(flight[l].key)) =>
            /\ ~sentUpstream(l)
            /\ flight[l].err # "nil"
            /\ flight[l].result = rawResult(flight[l].key)

\* ------------------------------------------------------------- buffer pool

\* Pages served with a charset=utf-8 label, and one served without.
InUtfOne == MkURL("http", "utf8.example", "", <<"one">>, <<>>)

InUtfTwo == MkURL("http", "utf8.example", "", <<"two">>, <<>>)

PoolInputs == {InUtfOne, InUtfTwo, InPlain}

NPoolCalls == 2

\* decodeBody on the bytes of buffer buf: bytes labelled utf-8 are returned
\* as they are, a slice of the buffer's array; any other encoding is
\* decoded into a new slice.
decodeBody(buf, body, ctype) ==
    IF ctype = "text/html; charset=utf-8"
    THEN [peeked |-> TRUE, alias |-> buf, copy |-> ""]
    ELSE [peeked |-> TRUE, alias |-> 0, copy |-> body]

\* Resolver.peekBody: pool.Get hands any buffer and resets it, io.Copy
\* fills it with the body, decodeBody decodes it, and the deferred pool.Put
\* gives the buffer back before the caller looks at the bytes.
PeekBody(l) ==
    /\ pc[l] = "run"
    /\ flight[l].stage = "body"
    /\ \E read \in {"ok", "timeout", "badstream", "badcharset"}, buf \in Buffers :
           LET f == flight[l]
               cs == ctx[flightCtx(l)]
               m == maybeParseTitle(cs, read, "")
           IN  IF m.err # "nil"
               THEN /\ complete(l, [f EXCEPT !.err = m.err, !.cause = "body",
                                             !.fault = IF cs # "alive" THEN cs ELSE read])
                    /\ pool' = [pool EXCEPT !.bytes[buf] = ""]
                    /\ streams' = [streams EXCEPT ![l].page = deferredClose(@)]
               ELSE /\ flight' = [flight EXCEPT ![l].stage = "title"]
                    /\ pool' = [pool EXCEPT !.bytes[buf] = f.body,
                                            !.body[l] = decodeBody(buf, f.body, f.ctype)]
                    /\ UNCHANGED <<inflight, pc, streams>>
    /\ UNCHANGED <<http, dial, canon, input, ctx, joined, cache, now, out, trip, cookies, found, fetched>>

\* The bytes the slice peekBody returned to l reads as now.
bodyBytes(l) ==
    IF pool.body[l].alias # 0 THEN pool.bytes[pool.body[l].alias]
    ELSE pool.body[l].copy

\* maybeParseTitle after peekBody returned: findTitle on the slice, and
\* the return of doResolve.
FindTitle(l) ==
    /\ pc[l] = "run"
    /\ flight[l].stage = "title"
    /\ complete(l, [flight[l] EXCEPT !.result.title = findTitle(bodyBytes(l))])
    /\ streams' = [streams EXCEPT ![l].page = deferredClose(@)]
    /\ UNCHANGED <<http, dial, canon, input, ctx, joined, cache, now, out, trip, cookies, pool, found, fetched>>

\* Resolves whose bodies go through the pool, one after the other or at
\* once.
NextPool ==
    \/ \E c \in 1..NPoolCalls, u \in PoolInputs : CachedGet(c, u)
    \/ \E c \in 1..NPoolCalls : Resolve(c)
    \/ \E l \in 1..NPoolCalls : DoGet(l)
    \/ \E l \in 1..NPoolCalls : PeekBody(l)
    \/ \E l \in 1..NPoolCalls : FindTitle(l)
    \/ \E c \in 1..NPoolCalls : Return(c)

SpecPool == Init /\ [][NextPool]_vars

\* A resolve whose body was decoded into a slice of its own holds the
\* bytes of its own response body until it has its title.
decodedCopyIsOwn ==
    \A l \in Calls :
        (flight[l].stage = "title" /\ pool.body[l].alias = 0) =>
            bodyBytes(l) = flight[l].body

\* C35: no resolve reads the bytes of a pooled buffer after it returned the
\* buffer to the pool: the bytes a resolve extracts its title from are the
\* bytes of its own response body, whatever another resolve that acquired
\* the same buffer writes.
C35_AsStated ==
    \A l \in Calls :
        flight[l].stage = "title" => bodyBytes(l) = flight[l].body

\* ------------------------------------------------------------- released resources

\* doResolve of the execution led by l has returned.
returned(l) == flight[l].stage = "done"

\* When doResolve returns, the body of the response httpClient.Do handed
\* it is closed, on the paths that read it, skip it, fail on it or leave
\* for the tweet fetch.
pageBodyClosed ==
    \A l \in Calls : returned(l) => streams[l].page # "open"

\* C36: when a resolve returns, on every path (success, transport error,
\* body error, tweet short-circuit success or failure), every response
\* body it opened has been closed.
C36_AsStated ==
    \A l \in Calls :
        returned(l) => (streams[l].page # "open" /\ streams[l].oembed # "open")

\* ------------------------------------------------------------- cache over the gate

NGateCalls == 2

\* Resolves of one input through the cached resolver, close in time.
NextGate ==
    \/ \E c \in 1..NGateCalls : CachedGet(c, InPlain)
    \/ \E c \in 1..NGateCalls : Resolve(c)
    \/ \E l \in 1..NGateCalls : DoGet(l)
    \/ \E l \in 1..NGateCalls : ReadBody(l)
    \/ \E c \in 1..NGateCalls : Return(c)
    \/ \E c \in 1..NGateCalls, kind \in {"canceled", "expired"} : Cancel(c, kind)
    \/ Tick

SpecGate == Init /\ [][NextGate]_vars

\* The execution led by l sent a GET upstream that was answered, and ended
\* without an error or has not ended.
sentGet(l) == flight[l].via # <<>> /\ flight[l].err = "nil"

\* The step starts an execution of doResolve for the call c.
StartsExecution(c) == flight[c].stage = "none" /\ flight'[c].stage # "none"

\* The step takes the call c past the cache without a hit.
MissesCache(c) == pc[c] = "idle" /\ pc'[c] = "resolve"

NLiveCalls == 2

\* Inputs of the resolves that must end: a chain that redirects without
\* end, a short link to a tweet, and a page.
LiveInputs == {InLoop, InTco, InPlain}

\* The timeouts a Resolver may be constructed with; 0 asks for the
\* default.
GivenTimeouts == {0, 1}

\* A resolver that hands the timeout it was given to its clients;
\* http.Client takes a Timeout of 0 as no timeout.
clientTimeoutAsGiven(timeout) == timeout

\* New: the timeout of the clients of httpClient and of the tweet fetcher
\* is the one given, or defaultTimeout when 0 was given.
clientTimeout(timeout) == IF timeout = 0 THEN defaultTimeout ELSE timeout

\* The upstream stops answering: during a request of the chain, while it
\* sends the body, or while the oEmbed endpoint answers.
Stall(l) ==
    /\ pc[l] = "run"
    /\ flight[l].stage \in {"get", "body", "tweet"}
    /\ flight' = [flight EXCEPT ![l].stage =
                      CASE @ = "get" -> "get stalled"
                        [] @ = "body" -> "body stalled"
                        [] OTHER -> "tweet stalled"]
    /\ UNCHANGED <<http, dial, canon, pc, input, ctx, joined, inflight, cache, now, out, trip, cookies, pool, streams, found, fetched>>

\* http.Client.Timeout: the timer of a client with a timeout ends the
\* pending request, body read or oEmbed fetch with a timeout error.
TimeoutFires(l) ==
    /\ pc[l] = "run"
    /\ flight[l].stage \in {"get stalled", "body stalled", "tweet stalled"}
    /\ \A t \in GivenTimeouts : clientTimeout(t) > 0
    /\ LET f == flight[l]
           cs == ctx[flightCtx(l)]
       IN  CASE f.stage = "get stalled" ->
                  LET g == doRequest([f EXCEPT !.stage = "get"], cs, "timeout", "", "")
                  IN  /\ advance(l, g)
                      /\ streams' = [streams EXCEPT ![l].page = pageBodyAfterDo(g)]
             [] f.stage = "body stalled" ->
                  LET m == maybeParseTitle(cs, "timeout", f.body)
                  IN  /\ complete(l, [f EXCEPT !.result.title = m.title,
                                               !.err = m.err, !.cause = "body",
                                               !.fault = IF cs # "alive" THEN cs
                                                         ELSE "timeout"])
                      /\ streams' = [streams EXCEPT ![l].page = deferredClose(@)]
             [] OTHER ->
                  LET resp == [kind |-> "timeout", url |-> EmptyURL, html |-> ""]
                      rt == resolveTweet(cs, f.tweetURL, f.result, resp)
                  IN  /\ complete(l, [f EXCEPT !.result = rt.result, !.err = rt.err,
                                               !.cause = "tweet"])
                      /\ streams' = [streams EXCEPT
                                        ![l] = [page |-> deferredClose(@.page),
                                                oembed |-> oembedBodyAfterFetch(cs, resp)]]
    /\ UNCHANGED <<http, dial, canon, input, ctx, joined, cache, now, out, trip, cookies, pool, found, fetched>>

NextLive ==
    \/ \E c \in 1..NLiveCalls, u \in LiveInputs : CachedGet(c, u)
    \/ \E c \in 1..NLiveCalls : Resolve(c)
    \/ \E l \in 1..NLiveCalls : DoGet(l)
    \/ \E l \in 1..NLiveCalls : ReadBody(l)
    \/ \E l \in 1..NLiveCalls : FetchTweet(l)
    \/ \E l \in 1..NLiveCalls : Stall(l)
    \/ \E l \in 1..NLiveCalls : TimeoutFires(l)
    \/ \E c \in 1..NLiveCalls : Return(c)

\* A step is due in the call c: its goroutine can run, or the timer of its
\* client is armed.  This is where Resolve(c), DoGet(c), ReadBody(c),
\* FetchTweet(c), TimeoutFires(c) or Return(c) is enabled.
Due(c) ==
    \/ pc[c] \in {"resolve", "ret"}
    \/ pc[c] = "wait" /\ flight[joined[c]].stage = "done"
    \/ pc[c] = "run" /\ flight[c].stage \in {"get", "body", "tweet"}
    \/ /\ pc[c] = "run"
       /\ flight[c].stage \in {"get stalled", "body stalled", "tweet stalled"}
       /\ \A t \in GivenTimeouts : clientTimeout(t) > 0

\* The step is one of the call c, other than its entry and other than the
\* upstream's stalling.
Moves(c) ==
    \/ pc[c] # "idle" /\ pc'[c] # pc[c]
    \/ /\ flight'[c] # flight[c]
       /\ flight'[c].stage \notin {"get stalled", "body stalled", "tweet stalled"}

\* Weak fairness of the steps of each call: every goroutine that can run
\* does run in the end; a request that the upstream does not leave
\* pending is answered or fails; a timer that is armed fires.
Fairness ==
    \A c \in 1..NLiveCalls : []<>(~Due(c)) \/ []<><<Moves(c)>>_vars

SpecLive == Init /\ [][NextLive]_vars /\ Fairness

\* C38: every Resolve call returns in the end, whether the upstream
\* answers, redirects without end or stalls, and so does every caller
\* that waits on another's execution.
C38_EveryCallReturns ==
    \A c \in 1..NLiveCalls : (pc[c] # "idle") ~> (pc[c] = "done")

\* A caller that waited on an execution which stalled and was ended by
\* the client's timer has returned the timeout error.
C38_Witness ==
    \E c \in Calls :
        /\ pc[c] = "done"
        /\ joined[c] \notin {0, c}
        /\ flight[joined[c]].fault = "timeout"
        /\ out[c].err = "DeadlineExceeded"

\* ------------------------------------------------------------- findTitle on documents

\* The pieces a document is made of: the opening of a title tag, the two
\* angle brackets, a letter, a blank, and the entity of the left bracket.
Pieces == {"<title", ">", "<", "x", " ", "&lt;"}

MaxDocLen == 5

RECURSIVE docsOfLen(_)
docsOfLen(n) ==
    IF n = 0 THEN {<<>>}
    ELSE { Append(d, p) : d \in docsOfLen(n - 1), p \in Pieces }

Docs == UNION { docsOfLen(n) : n \in 0..MaxDocLen }

\* The piece begins with the left bracket.
isLt(p) == p \in {"<", "<title"}

\* titleRegex.FindSubmatch, (?im)<title[^>]*?>([^<]+): the first opening
\* of a title tag whose next right bracket is followed by a piece other
\* than a left bracket; the group runs from there up to the next left
\* bracket or the end.  The group is <<>> when there is no match.
titleRegex(body) ==
    LET closeOf(i) ==
            IF \E j \in (i + 1)..Len(body) : body[j] = ">"
            THEN CHOOSE j \in (i + 1)..Len(body) :
                     /\ body[j] = ">"
                     /\ \A h \in (i + 1)..(j - 1) : body[h] # ">"
            ELSE 0
        matchesAt(i) ==
            /\ body[i] = "<title"
            /\ closeOf(i) # 0
            /\ closeOf(i) < Len(body)
            /\ ~isLt(body[closeOf(i) + 1])
        starts == { i \in 1..Len(body) : matchesAt(i) }
    IN  IF starts = {} THEN <<>>
        ELSE LET i == CHOOSE a \in starts : \A b \in starts : a <= b
                 from == closeOf(i) + 1
                 stops == { h \in from..Len(body) : isLt(body[h]) }
                 to == IF stops = {} THEN Len(body)
                       ELSE (CHOOSE a \in stops : \A b \in stops : a <= b) - 1
             IN  SubSeq(body, from, to)

\* bytes.TrimSpace.
RECURSIVE TrimSpace(_)
TrimSpace(t) ==
    IF t = <<>> THEN t
    ELSE IF Head(t) = " " THEN TrimSpace(Tail(t))
    ELSE IF t[Len(t)] = " " THEN TrimSpace(SubSeq(t, 1, Len(t) - 1))
    ELSE t

\* A findTitle that returns the text as it stands in the document.
UnescapeStringNot(t) == t

\* html.UnescapeString: each entity becomes the character it names.
UnescapeString(t) == [i \in 1..Len(t) |-> IF t[i] = "&lt;" THEN "<" ELSE t[i]]

\* findTitle, on a document given piece by piece.
findTitleOf(body) == UnescapeString(TrimSpace(titleRegex(body)))

\* One call of findTitle.
CallFindTitle(body) ==
    /\ ~found.called
    /\ found' = [called |-> TRUE, body |-> body, title |-> findTitleOf(body)]
    /\ UNCHANGED <<http, dial, canon, pc, input, ctx, joined, flight, inflight, cache, now, out, trip, cookies, pool, streams, fetched>>

NextTitle == \E body \in Docs : CallFindTitle(body)

SpecTitle == Init /\ [][NextTitle]_vars

\* The title is the run of pieces from..to of the document, with the
\* bracket's entity read as the bracket.
readsRun(title, body, from, to) ==
    /\ Len(title) = to - from + 1
    /\ \A i \in 1..Len(title) :
           title[i] = IF body[from + i - 1] = "&lt;" THEN "<" ELSE body[from + i - 1]

\* C39 (amended): the text findTitle takes from the document is cut at
\* the first left bracket after the opening title tag, so no bracket of
\* the document's markup is in the title; a left bracket in the title
\* stands for an entity of the document, which findTitle unescapes.
C39_NoMarkupBracket ==
    (found.called /\ found.title # <<>>) =>
        \E from \in 2..Len(found.body), to \in 2..Len(found.body) :
            /\ from <= to
            /\ \A h \in from..to : ~isLt(found.body[h])
            /\ found.body[from - 1] \in {">", " "}
            /\ to = Len(found.body) \/ isLt(found.body[to + 1]) \/ found.body[to + 1] = " "
            /\ readsRun(found.title, found.body, from, to)

\* A title with a left bracket, returned for a document whose title text
\* holds the bracket's entity.
C39_Witness ==
    /\ found.called
    /\ \E i \in 1..Len(found.title) : found.title[i] = "<"
    /\ \E i \in 1..Len(found.body) : found.body[i] = "&lt;"

\* C39 (as stated): the title returned by findTitle never contains the
\* left bracket.
C39_AsStated ==
    found.called => \A i \in 1..Len(found.title) : found.title[i] # "<"

\* ------------------------------------------------------------- Fetch on its own

\* What the oEmbed endpoint may answer: no answer (a transport failure or
\* silence up to the timeout), an answer with a status other than 200, a
\* 200 whose body is no JSON, or a 200 with JSON whose url is empty or a
\* tweet's address and whose html is empty, a blockquote with a
\* paragraph, or markup without one.
OembedURLs ==
    {EmptyURL,
     MkURL("https", "twitter.com", "", <<"McCutchen", "status", "1234">>, <<>>),
     MkURL("https", "twitter.com", "", <<"thresholderbot", "status", "5678">>, <<>>)}

OembedHTMLs == {"", "<p>tweet text</p>", "<div>no paragraph</div>"}

OembedAnswers ==
    [kind : {"neterr", "timeout", "status", "badjson", "json"},
     url : OembedURLs, html : OembedHTMLs]

\* One call of Fetch.
CallFetch(ctxState, resp) ==
    /\ ~fetched.called
    /\ LET f == Fetch(ctxState, resp)
       IN  fetched' = [called |-> TRUE, ctx |-> ctxState, resp |-> resp,
                       tweet |-> f.tweet, err |-> f.err]
    /\ UNCHANGED <<http, dial, canon, pc, input, ctx, joined, flight, inflight, cache, now, out, trip, cookies, pool, streams, found>>

NextFetch ==
    \E ctxState \in {"alive", "canceled", "expired"}, resp \in OembedAnswers :
        CallFetch(ctxState, resp)

SpecFetch == Init /\ [][NextFetch]_vars

\* The answer reached Fetch with status 200, a body that is JSON, and
\* both fields filled.
goodAnswer ==
    /\ fetched.ctx = "alive"
    /\ fetched.resp.kind = "json"
    /\ fetched.resp.url # EmptyURL
    /\ fetched.resp.html # ""

\* C40: Fetch returns the tweet (the url of the answer, the text of the
\* first paragraph of its html) without an error exactly when the answer
\* has status 200, a body that is valid JSON and non-empty url and html;
\* in every other case it returns an error and the zero tweet.
C40_PopulatedExactly ==
    fetched.called =>
        /\ goodAnswer =>
               /\ fetched.err = "nil"
               /\ fetched.tweet.url = fetched.resp.url
               /\ fetched.tweet.text =
                      IF fetched.resp.html = "<p>tweet text</p>" THEN "tweet text" ELSE ""
        /\ ~goodAnswer =>
               /\ fetched.err # "nil"
               /\ fetched.tweet = NoTweet

\* Fetch refused an answer whose status is not 200 although its body
\* holds both fields.
C40_Witness ==
    /\ fetched.called
    /\ fetched.ctx = "alive"
    /\ fetched.resp.kind = "status"
    /\ fetched.resp.url # EmptyURL
    /\ fetched.resp.html = "<p>tweet text</p>"
    /\ fetched.err = "TwitterStatus"
    /\ fetched.tweet = NoTweet

====
